---- MODULE Spec2Model ----
(***************************************************************************)
(* The WASIO executor backed by tokio (lib/wasi/src/wasio/executor_impl/   *)
(* tokio.rs): one-shot operations wrapped in an Abortable and spawned on   *)
(* the threaded runtime, the ongoing-operations map, the completion        *)
(* channel, the thread-local completion queue, the capacity-1 accept       *)
(* hand-off queue, and the AbstractTcpSocket state machine.                *)
(*                                                                         *)
(* The executor holds RefCell fields, so enqueue_oneshot / perform / wait  *)
(* run on one guest thread (the "caller"); the spawned tasks run on the    *)
(* runtime's worker threads and interleave with it at every step.          *)
(***************************************************************************)
EXTENDS Integers, Sequences, FiniteSets, TLC

\* ------------------------------------------------------------------ bounds
\* The bounds stand in the Next of each specification, never in an action.
MaxTokens == 2      \* one-shot operations spawned on the runtime
MaxLocal == 2       \* one-shot operations resolved through the local queue
MaxCtx == 2         \* distinct user contexts the guest passes
MaxFd == 2          \* socket descriptors in the descriptor table
MaxIncoming == 1    \* connections the host's peers open towards the listeners
MaxPeers == 2       \* the same, where the order of accepted connections matters
MaxSockets == 3
MaxLen == 2
MaxCalls == 1     \* descriptors in the table, where accept() makes the sockets

\* --------------------------------------------------------- program constants
AcceptCapacity == 1     \* mpsc::channel(1)
FirstToken == 1         \* AtomicU64::new(1)
SizeIn == 16            \* size of SockaddrIn
SizeIn6 == 28           \* size of SockaddrIn6
PortMax == 65535        \* the port is a u16
Chunk == 4096           \* sock_send_file: count.min(4096)
STDIN_FILENO == 0
STDOUT_FILENO == 1
STDERR_FILENO == 2

UserContexts == 1..MaxCtx

\* ------------------------------------------------------------- socket addresses
\* A SocketAddr: family 4 or 6, an address and a port in host byte order.
NoAddr == [fam |-> 0, ip |-> 0, port |-> 0]

\* u16::to_be on a little-endian host (the wasm ABI is little-endian): the two
\* bytes of the port change places.
ToBe16(p) == (p % 256) * 256 + (p \div 256)

\* The host network, as the executor sees it through tokio: the ports (in host
\* byte order) behind which a peer accepts, a peer resets, or nothing ever
\* answers; port 0 asks the host to pick, and the host picks the ephemeral one.
HostPorts == [any |-> 0, up |-> 80, refused |-> 81, silent |-> 82, ephemeral |-> 4097]

\* The wire structs the guest can place in its memory: the size it passes, the
\* port field as stored (big-endian), the address field.
WireStructs ==
    [size : {SizeIn, SizeIn6, 8},
     port : {ToBe16(HostPorts.up), ToBe16(HostPorts.silent)},
     ip : {1}]

VARIABLES
    ongoing,            \* ExecutorState.ongoing: the tokens that have an abort handle
    ongoing_next,       \* ExecutorState.ongoing_next
    completed,          \* completed_tx/completed_rx: the cross-thread channel
    local_completion,   \* TokioExecutor.local_completion
    accepted,           \* accepted_tx/accepted_rx: the accept hand-off queue
    tasks,              \* the tasks spawned on the runtime, by token
    fs,                 \* the descriptor table: the sockets, by descriptor
    backlog,            \* host: connections waiting in each listener's queue
    incoming,           \* host: connections peers have opened so far
    enqueued,           \* history: every accepted enqueue_oneshot call
    delivered,          \* history: every record wait() has returned, with the queue
                        \* it came from and the channel's length at that moment
    cancelled,          \* history: the tokens for which Cancel returned Ok, in order
    lastRet,            \* what the caller's last perform() call returned
    blocked,            \* the perform() call the caller is inside, waiting for a lock
    fd_map,             \* WasiFs.fd_map with the inodes behind it, by descriptor
    send_file,          \* the sock_send_file call under way, and its history
    commands,           \* Commands.commands: the registered command, by path
    stderr,             \* the guest's error stream: what was written to it
    exec_ret,           \* what the last Commands::exec call returned
    syscall_ret,        \* what the last sock_* dispatch call returned, and to what
    enqueue_ret         \* what the caller's last enqueue_oneshot call returned

\* The state of the syscall layer (syscalls/wasix).
os == <<commands, stderr, exec_ret, syscall_ret>>

\* What the executor's perform() and its tasks leave alone.
wasix == <<fd_map, send_file, os, enqueue_ret>>

vars == <<ongoing, ongoing_next, completed, local_completion, accepted, tasks,
          fs, backlog, incoming, enqueued, delivered, cancelled, lastRet, blocked,
          fd_map, send_file, commands, stderr, exec_ret, syscall_ret, enqueue_ret>>

\* ------------------------------------------------------------------ errors
\* Fault: every host error becomes the generic I/O errno.
FromTokioErrorGeneric(kind) == "EIO"

\* from_tokio_error: the host's io::ErrorKind to the WASI errno.
\* Fault: a kind without an entry of its own is reported as an I/O error.
FromTokioErrorOtherIo(kind) ==
    CASE kind = "NotFound" -> "EEXIST"
      [] kind = "PermissionDenied" -> "EPERM"
      [] kind = "ConnectionRefused" -> "ECONNREFUSED"
      [] kind = "ConnectionReset" -> "ECONNRESET"
      [] kind = "ConnectionAborted" -> "ECONNABORTED"
      [] kind = "NotConnected" -> "ENOTCONN"
      [] kind = "AddrInUse" -> "EADDRINUSE"
      [] kind = "AddrNotAvailable" -> "EADDRNOTAVAIL"
      [] kind = "BrokenPipe" -> "EPIPE"
      [] kind = "AlreadyExists" -> "EEXIST"
      [] kind = "WouldBlock" -> "EAGAIN"
      [] kind = "InvalidInput" -> "EINVAL"
      [] kind = "InvalidData" -> "EINVAL"
      [] kind = "TimedOut" -> "ETIMEDOUT"
      [] kind = "WriteZero" -> "EINVAL"
      [] kind = "Interrupted" -> "EAGAIN"
      [] kind = "UnexpectedEof" -> "EIO"
      [] OTHER -> "EIO"

FromTokioError(kind) ==
    CASE kind = "NotFound" -> "EEXIST"
      [] kind = "PermissionDenied" -> "EPERM"
      [] kind = "ConnectionRefused" -> "ECONNREFUSED"
      [] kind = "ConnectionReset" -> "ECONNRESET"
      [] kind = "ConnectionAborted" -> "ECONNABORTED"
      [] kind = "NotConnected" -> "ENOTCONN"
      [] kind = "AddrInUse" -> "EADDRINUSE"
      [] kind = "AddrNotAvailable" -> "EADDRNOTAVAIL"
      [] kind = "BrokenPipe" -> "EPIPE"
      [] kind = "AlreadyExists" -> "EEXIST"
      [] kind = "WouldBlock" -> "EAGAIN"
      [] kind = "InvalidInput" -> "EINVAL"
      [] kind = "InvalidData" -> "EINVAL"
      [] kind = "TimedOut" -> "ETIMEDOUT"
      [] kind = "WriteZero" -> "EINVAL"
      [] kind = "Interrupted" -> "EAGAIN"
      [] kind = "UnexpectedEof" -> "EIO"
      [] OTHER -> "EINVAL"

\* decode_socket_addr: the wire struct of the given size to a SocketAddr, the
\* port byte-swapped; any size but 16 and 28 is EINVAL (family 0 here).
DecodeSocketAddr(w) ==
    CASE w.size = SizeIn -> [fam |-> 4, ip |-> w.ip, port |-> ToBe16(w.port)]
      [] w.size = SizeIn6 -> [fam |-> 6, ip |-> w.ip, port |-> ToBe16(w.port)]
      [] OTHER -> NoAddr

\* encode_socket_addr: the size the encoder needs for the address, and whether
\* the caller's size is accepted.
EncodedSize(addr) == IF addr.fam = 4 THEN SizeIn ELSE SizeIn6

\* Fault: the port is stored in host order.
EncodeWireHostOrder(addr) ==
    [size |-> EncodedSize(addr), port |-> addr.port, ip |-> addr.ip]

\* lines 927-932, 940-946: the struct encode_socket_addr stores, with the size
\* it reports: the port swapped to network order, the octets as they are.
EncodeWire(addr) ==
    [size |-> EncodedSize(addr), port |-> ToBe16(addr.port), ip |-> addr.ip]
EncodeAccepts(size, addr) == ~(size < EncodedSize(addr))

\* -------------------------------------------------------------------- sockets
\* AbstractTcpSocketInner with its SocketMetadata, and the holders of the
\* socket's locks: the RwLock around the inner state, the listener's mutex and
\* the mutexes of a stream's read half and write half.
NewSocket(inner) ==
    [inner |-> inner, local |-> NoAddr, remote |-> NoAddr,
     wlock |-> 0, rlock |-> {}, lmutex |-> 0, rhalf |-> 0, whalf |-> 0,
     sent |-> 0, rcvd |-> 0]

\* fs.get_wasi_file_as::<AbstractTcpSocket>(fd): the descriptor resolves.
HasSocket(fd) == fd \in DOMAIN fs

\* Fault: a writer does not wait for another writer.
WriteFreeAmongWriters(s) == s.rlock = {}

\* The RwLock of a socket can be taken for writing / for reading.
WriteFree(s) == s.wlock = 0 /\ s.rlock = {}
ReadFree(s) == s.wlock = 0

\* Fault: the guards of a dropped future stay held.
DropNothing(f, t) == f

\* Dropping a task's future drops every guard it holds.
DropGuards(f, t) ==
    [fd \in DOMAIN f |->
        [f[fd] EXCEPT !.wlock = IF @ = t THEN 0 ELSE @,
                      !.rlock = @ \ {t},
                      !.lmutex = IF @ = t THEN 0 ELSE @,
                      !.rhalf = IF @ = t THEN 0 ELSE @,
                      !.whalf = IF @ = t THEN 0 ELSE @]]

\* ------------------------------------------------------------------- tasks
NoConn == [peer |-> NoAddr, id |-> 0, via |-> 0]

\* The iovec list a Read or Write captured: its length in bytes, and whether
\* its buffer lies in the guest's memory.
NoIov == [len |-> 0, ok |-> TRUE]

NewTask(kind, ctx, fd, addr, op) ==
    [kind |-> kind, ctx |-> ctx, op |-> op, pc |-> "pending", aborted |-> FALSE,
     result |-> "", stage |-> "start", fd |-> fd, addr |-> addr, conn |-> NoConn,
     iov |-> NoIov]

\* Fault: the counter is read but not advanced.
FetchAddStuck(n) == n

\* ongoing_next.fetch_add(1): the value the counter takes.
FetchAdd(n) == n + 1

\* Number of one-shot operations spawned / resolved locally so far.
Spawned == Cardinality({i \in DOMAIN enqueued : enqueued[i].tok # 0})
Local == Cardinality({i \in DOMAIN enqueued : enqueued[i].tok = 0})

\* Fault: an aborted operation is reported as a generic I/O error.
EnqueuedAsIoError(result, ctx) ==
    IF result = "Aborted" THEN [code |-> "EIO", ctx |-> ctx]
    ELSE [code |-> result, ctx |-> ctx]

\* Fault: the Canceled record loses the caller's user context.
EnqueuedWithoutContext(result, ctx) ==
    IF result = "Aborted" THEN [code |-> "ECANCELED", ctx |-> 0]
    ELSE [code |-> result, ctx |-> ctx]

\* lines 131-140: the record the task enqueues for the Abortable's result.
Enqueued(result, ctx) ==
    IF result = "Aborted" THEN [code |-> "ECANCELED", ctx |-> ctx]
    ELSE [code |-> result, ctx |-> ctx]

\* lines 150-154: enqueue_oneshot returns Ok(CancellationToken) or Err(errno).
EnqueueOk(ctx, tok) == [ctx |-> ctx, ret |-> "Ok", tok |-> tok]
EnqueueErr(ctx, errno) == [ctx |-> ctx, ret |-> errno, tok |-> 0]

\* spawn_oneshot: allocate the token, insert the abort handle, spawn the task.
SpawnWith(kind, ctx, fd, addr, iov) ==
    /\ LET ongoing_index == ongoing_next IN
        /\ ongoing_next' = FetchAdd(ongoing_next)
        /\ ongoing' = ongoing \cup {ongoing_index}
        /\ tasks' = [t \in DOMAIN tasks \cup {ongoing_index} |->
                        IF t = ongoing_index
                        THEN [NewTask(kind, ctx, fd, addr, Len(enqueued) + 1)
                                EXCEPT !.iov = iov]
                        ELSE tasks[t]]
        /\ enqueued' = Append(enqueued, [kind |-> kind, ctx |-> ctx, tok |-> ongoing_index])

SpawnOneshot(kind, ctx, fd, addr) == SpawnWith(kind, ctx, fd, addr, NoIov)

\* The Abortable resolves: the task's future is dropped, with what it had
\* captured (the socket, the address, an accepted stream not yet handed off).
Resolved(task, result) ==
    [task EXCEPT !.pc = "resolved", !.result = result, !.stage = "",
                 !.fd = 0, !.addr = NoAddr, !.conn = NoConn, !.iov = NoIov]

\* The future is dropped before it finished: its guards are dropped with it.
Resolve(t, result) ==
    /\ tasks' = [tasks EXCEPT ![t] = Resolved(@, result)]
    /\ fs' = DropGuards(fs, t)

\* Abortable::poll finds the abort flag set (before polling the future, or
\* after the future returned Pending): Err(Aborted).
\* The flag is read only at those two points: an abort() that lands while a
\* poll is under way does not stop the future from completing in that poll, so
\* a pending task whose flag is set may still resolve with the future's result.
TaskAborted(t) ==
    /\ t \in DOMAIN tasks
    /\ tasks[t].pc = "pending"
    /\ tasks[t].aborted
    /\ Resolve(t, "Aborted")
    /\ UNCHANGED <<ongoing, ongoing_next, completed, local_completion, accepted,
                   backlog, incoming, enqueued, delivered, cancelled, wasix, lastRet, blocked>>

\* Fault: the task leaves its entry in the map.
TaskKeeps(t) == ongoing

\* line 128: what the task leaves in the map.
TaskLeaves(t) == ongoing \ {t}

\* line 128: state.ongoing.pin().remove(&ongoing_index)
TaskRemove(t) ==
    /\ t \in DOMAIN tasks
    /\ tasks[t].pc = "resolved"
    /\ ongoing' = TaskLeaves(t)
    /\ tasks' = [tasks EXCEPT ![t].pc = "removed"]
    /\ UNCHANGED <<ongoing_next, completed, local_completion, accepted, fs,
                   backlog, incoming, enqueued, delivered, cancelled, wasix, lastRet, blocked>>

\* Fault: the task sends its record again.
AfterSendAgain == "removed"

\* What the task does after sending its record: it ends.
AfterSend == "done"

\* line 143: state.completed_tx.send(enqueued)
TaskSend(t) ==
    /\ t \in DOMAIN tasks
    /\ tasks[t].pc = "removed"
    /\ LET e == Enqueued(tasks[t].result, tasks[t].ctx) IN
        completed' = Append(completed,
            [code |-> e.code, ctx |-> e.ctx, tok |-> t, op |-> tasks[t].op])
    /\ tasks' = [tasks EXCEPT ![t].pc = AfterSend]
    /\ UNCHANGED <<ongoing, ongoing_next, local_completion, accepted, fs,
                   backlog, incoming, enqueued, delivered, cancelled, wasix, lastRet, blocked>>

\* The future of Delay: tokio::time::delay_for(duration) elapses.
TaskDelayElapsed(t) ==
    /\ t \in DOMAIN tasks
    /\ tasks[t].pc = "pending"
    /\ tasks[t].kind = "delay"
    /\ Resolve(t, "ESUCCESS")
    /\ UNCHANGED <<ongoing, ongoing_next, completed, local_completion, accepted,
                   backlog, incoming, enqueued, delivered, cancelled, wasix, lastRet, blocked>>

\* ------------------------------------------------ the future of SocketConnect
\* What the host answers to TcpStream::connect(addr), local_addr and peer_addr:
\* "Ok", or the io::ErrorKind; nothing at all for the silent port.
HostConnect(addr) ==
    CASE addr.port = HostPorts.up -> {"Ok", "NotConnected"}
      [] addr.port = HostPorts.refused -> {"ConnectionRefused"}
      [] addr.port = HostPorts.silent -> {}
      [] OTHER -> {"AddrNotAvailable"}

\* The local end the host gives a connection made from descriptor fd.
HostLocal(fam, fd) == [fam |-> fam, ip |-> 1, port |-> HostPorts.ephemeral + fd]

\* Fault: connect does not look at the state of the socket.
ConnectFromAny(inner) == TRUE

\* lines 398-403: the states a connect may start from.
ConnectLegal(inner) == inner \in {"Undefined4", "Undefined6", "Binded"}

\* lines 397-403: sock.inner.write().await, then the check of the state.
TaskConnectLock(t) ==
    /\ t \in DOMAIN tasks
    /\ tasks[t].pc = "pending"
    /\ tasks[t].kind = "connect"
    /\ tasks[t].stage = "start"
    /\ WriteFree(fs[tasks[t].fd])
    /\ IF ConnectLegal(fs[tasks[t].fd].inner)
       THEN /\ tasks' = [tasks EXCEPT ![t].stage = "connecting"]
            /\ fs' = [fs EXCEPT ![tasks[t].fd].wlock = t]
       ELSE Resolve(t, "EINVAL")
    /\ UNCHANGED <<ongoing, ongoing_next, completed, local_completion, accepted,
                   backlog, incoming, enqueued, delivered, cancelled, wasix, lastRet, blocked>>

\* lines 404-422: the host connect resolves; on success the socket becomes Stream.
TaskConnectDone(t, answer) ==
    /\ t \in DOMAIN tasks
    /\ tasks[t].pc = "pending"
    /\ tasks[t].kind = "connect"
    /\ tasks[t].stage = "connecting"
    /\ answer \in HostConnect(tasks[t].addr)
    /\ LET fd == tasks[t].fd IN
        IF answer = "Ok"
        THEN /\ tasks' = [tasks EXCEPT ![t] = Resolved(@, "ESUCCESS")]
             /\ fs' = [fs EXCEPT ![fd].inner = "Stream",
                                 ![fd].local = HostLocal(tasks[t].addr.fam, fd),
                                 ![fd].remote = tasks[t].addr,
                                 ![fd].wlock = 0]
        ELSE Resolve(t, FromTokioError(answer))
    /\ UNCHANGED <<ongoing, ongoing_next, completed, local_completion, accepted,
                   backlog, incoming, enqueued, delivered, cancelled, wasix, lastRet, blocked>>

\* ------------------------------------------------ the futures of Read, Write
\* Fault: a bound socket is taken for a stream.
IoLegalOnceBound(inner) == inner \in {"Stream", "Binded"}

\* lines 198, 270: the state a Read or a Write goes on from.
IoLegal(inner) == inner = "Stream"

\* lines 197-229: sock.inner.read().await, then the check of the state.
TaskReadLock(t) ==
    /\ t \in DOMAIN tasks
    /\ tasks[t].pc = "pending"
    /\ tasks[t].kind = "read"
    /\ tasks[t].stage = "start"
    /\ ReadFree(fs[tasks[t].fd])
    /\ IF IoLegal(fs[tasks[t].fd].inner)
       THEN /\ tasks' = [tasks EXCEPT ![t].stage = "locked"]
            /\ fs' = [fs EXCEPT ![tasks[t].fd].rlock = @ \cup {t}]
       ELSE Resolve(t, "EINVAL")
    /\ UNCHANGED <<ongoing, ongoing_next, completed, local_completion, accepted,
                   backlog, incoming, enqueued, delivered, cancelled, wasix, lastRet, blocked>>

\* Fault: the read half is handed out without a mutex.
TaskReadHalfShared(t) ==
    /\ t \in DOMAIN tasks
    /\ tasks[t].pc = "pending"
    /\ tasks[t].kind = "read"
    /\ tasks[t].stage = "locked"
    /\ IF ~tasks[t].iov.ok THEN Resolve(t, "EFAULT")
       ELSE /\ tasks' = [tasks EXCEPT ![t].stage = "reading"]
            /\ fs' = [fs EXCEPT ![tasks[t].fd].rhalf = t]
    /\ UNCHANGED <<ongoing, ongoing_next, completed, local_completion, accepted,
                   backlog, incoming, enqueued, delivered, cancelled, wasix, lastRet, blocked>>

\* lines 199-210: the buffer is resolved, then read_half.lock().await.
TaskReadHalf(t) ==
    /\ t \in DOMAIN tasks
    /\ tasks[t].pc = "pending"
    /\ tasks[t].kind = "read"
    /\ tasks[t].stage = "locked"
    /\ IF ~tasks[t].iov.ok THEN Resolve(t, "EFAULT")
       ELSE /\ fs[tasks[t].fd].rhalf = 0
            /\ tasks' = [tasks EXCEPT ![t].stage = "reading"]
            /\ fs' = [fs EXCEPT ![tasks[t].fd].rhalf = t]
    /\ UNCHANGED <<ongoing, ongoing_next, completed, local_completion, accepted,
                   backlog, incoming, enqueued, delivered, cancelled, wasix, lastRet, blocked>>

\* lines 211-226: the read half is read from: n bytes (none at the end of the
\* stream), or an error of the host.
TaskReadDone(t, n, answer) ==
    /\ t \in DOMAIN tasks
    /\ tasks[t].pc = "pending"
    /\ tasks[t].kind = "read"
    /\ tasks[t].stage = "reading"
    /\ n <= tasks[t].iov.len
    /\ IF answer # "Ok" THEN Resolve(t, FromTokioError(answer))
       ELSE /\ tasks' = [tasks EXCEPT ![t] = Resolved(@, "ESUCCESS")]
            /\ fs' = DropGuards([fs EXCEPT ![tasks[t].fd].rcvd = @ + n], t)
    /\ UNCHANGED <<ongoing, ongoing_next, completed, local_completion, accepted,
                   backlog, incoming, enqueued, delivered, cancelled, wasix, lastRet, blocked>>

\* lines 256-287: the data is gathered from the guest's buffer, then
\* sock.inner.read().await and the check of the state.
TaskWriteLock(t) ==
    /\ t \in DOMAIN tasks
    /\ tasks[t].pc = "pending"
    /\ tasks[t].kind = "write"
    /\ tasks[t].stage = "start"
    /\ IF ~tasks[t].iov.ok THEN Resolve(t, "EFAULT")
       ELSE /\ ReadFree(fs[tasks[t].fd])
            /\ IF IoLegal(fs[tasks[t].fd].inner)
               THEN /\ tasks' = [tasks EXCEPT ![t].stage = "locked"]
                    /\ fs' = [fs EXCEPT ![tasks[t].fd].rlock = @ \cup {t}]
               ELSE Resolve(t, "EINVAL")
    /\ UNCHANGED <<ongoing, ongoing_next, completed, local_completion, accepted,
                   backlog, incoming, enqueued, delivered, cancelled, wasix, lastRet, blocked>>

\* line 271: write_half.lock().await.
TaskWriteHalf(t) ==
    /\ t \in DOMAIN tasks
    /\ tasks[t].pc = "pending"
    /\ tasks[t].kind = "write"
    /\ tasks[t].stage = "locked"
    /\ fs[tasks[t].fd].whalf = 0
    /\ tasks' = [tasks EXCEPT ![t].stage = "writing"]
    /\ fs' = [fs EXCEPT ![tasks[t].fd].whalf = t]
    /\ UNCHANGED <<ongoing, ongoing_next, completed, local_completion, accepted,
                   backlog, incoming, enqueued, delivered, cancelled, wasix, lastRet, blocked>>

\* lines 272-284: the write half is written to: n bytes of the gathered data,
\* or an error of the host.
TaskWriteDone(t, n, answer) ==
    /\ t \in DOMAIN tasks
    /\ tasks[t].pc = "pending"
    /\ tasks[t].kind = "write"
    /\ tasks[t].stage = "writing"
    /\ n <= tasks[t].iov.len
    /\ (tasks[t].iov.len > 0 => n > 0)
    /\ IF answer # "Ok" THEN Resolve(t, FromTokioError(answer))
       ELSE /\ tasks' = [tasks EXCEPT ![t] = Resolved(@, "ESUCCESS")]
            /\ fs' = DropGuards([fs EXCEPT ![tasks[t].fd].sent = @ + n], t)
    /\ UNCHANGED <<ongoing, ongoing_next, completed, local_completion, accepted,
                   backlog, incoming, enqueued, delivered, cancelled, wasix, lastRet, blocked>>

\* ---------------------------------------------- the future of SocketPreAccept
\* lines 362-366: sock.inner.read().await, then the check of the state.
TaskAcceptLock(t) ==
    /\ t \in DOMAIN tasks
    /\ tasks[t].pc = "pending"
    /\ tasks[t].kind = "preaccept"
    /\ tasks[t].stage = "start"
    /\ ReadFree(fs[tasks[t].fd])
    /\ IF fs[tasks[t].fd].inner = "Listening"
       THEN /\ tasks' = [tasks EXCEPT ![t].stage = "locked"]
            /\ fs' = [fs EXCEPT ![tasks[t].fd].rlock = @ \cup {t}]
       ELSE Resolve(t, "EINVAL")
    /\ UNCHANGED <<ongoing, ongoing_next, completed, local_completion, accepted,
                   backlog, incoming, enqueued, delivered, cancelled, wasix, lastRet, blocked>>

\* line 364: x.lock().await on the listener's mutex.
TaskAcceptListener(t) ==
    /\ t \in DOMAIN tasks
    /\ tasks[t].pc = "pending"
    /\ tasks[t].kind = "preaccept"
    /\ tasks[t].stage = "locked"
    /\ fs[tasks[t].fd].lmutex = 0
    /\ tasks' = [tasks EXCEPT ![t].stage = "accepting"]
    /\ fs' = [fs EXCEPT ![tasks[t].fd].lmutex = t]
    /\ UNCHANGED <<ongoing, ongoing_next, completed, local_completion, accepted,
                   backlog, incoming, enqueued, delivered, cancelled, wasix, lastRet, blocked>>

\* lines 367-372: listener.accept() returns a connection; both guards are dropped.
TaskAcceptOk(t) ==
    /\ t \in DOMAIN tasks
    /\ tasks[t].pc = "pending"
    /\ tasks[t].kind = "preaccept"
    /\ tasks[t].stage = "accepting"
    /\ backlog[tasks[t].fd] # << >>
    /\ tasks' = [tasks EXCEPT ![t].stage = "sending",
                              ![t].conn = Head(backlog[tasks[t].fd])]
    /\ backlog' = [backlog EXCEPT ![tasks[t].fd] = Tail(@)]
    /\ fs' = DropGuards(fs, t)
    /\ UNCHANGED <<ongoing, ongoing_next, completed, local_completion, accepted,
                   incoming, enqueued, delivered, cancelled, wasix, lastRet, blocked>>

\* lines 367-370: listener.accept() fails (the peer went away before accept).
TaskAcceptErr(t) ==
    /\ t \in DOMAIN tasks
    /\ tasks[t].pc = "pending"
    /\ tasks[t].kind = "preaccept"
    /\ tasks[t].stage = "accepting"
    /\ Resolve(t, FromTokioError("ConnectionAborted"))
    /\ UNCHANGED <<ongoing, ongoing_next, completed, local_completion, accepted,
                   backlog, incoming, enqueued, delivered, cancelled, wasix, lastRet, blocked>>

\* Fault: the hand-off channel is unbounded.
SendAlwaysHasRoom(q) == TRUE

\* mpsc::channel(1): send() completes when the channel has a free slot.
SendHasRoom(q) == Len(q) < AcceptCapacity

\* Fault: the loop ends with success and the connection is dropped.
TaskAcceptSendNothing(t) ==
    /\ t \in DOMAIN tasks
    /\ tasks[t].pc = "pending"
    /\ tasks[t].kind = "preaccept"
    /\ tasks[t].stage = "sending"
    /\ SendHasRoom(accepted)
    /\ Resolve(t, "ESUCCESS")
    /\ UNCHANGED <<ongoing, ongoing_next, completed, local_completion, accepted,
                   backlog, incoming, enqueued, delivered, cancelled, wasix, lastRet, blocked>>

\* lines 376-383: accepted_tx.send((stream, addr)).await, waiting for room.
TaskAcceptSend(t) ==
    /\ t \in DOMAIN tasks
    /\ tasks[t].pc = "pending"
    /\ tasks[t].kind = "preaccept"
    /\ tasks[t].stage = "sending"
    /\ SendHasRoom(accepted)
    /\ accepted' = Append(accepted, tasks[t].conn)
    /\ Resolve(t, "ESUCCESS")
    /\ UNCHANGED <<ongoing, ongoing_next, completed, local_completion,
                   backlog, incoming, enqueued, delivered, cancelled, wasix, lastRet, blocked>>

\* The host: a peer opens a connection towards a listening socket; each peer
\* connects from a port of its own.
PeerAddr(id) == [fam |-> 4, ip |-> 2, port |-> 5000 + id]

HostIncoming(fd) ==
    /\ fd \in DOMAIN fs
    /\ fs[fd].inner = "Listening"
    /\ incoming' = incoming + 1
    /\ backlog' = [backlog EXCEPT ![fd] =
                      Append(@, [peer |-> PeerAddr(incoming + 1), id |-> incoming + 1, via |-> fd])]
    /\ UNCHANGED <<ongoing, ongoing_next, completed, local_completion, accepted,
                   tasks, fs, enqueued, delivered, cancelled, wasix, lastRet, blocked>>

\* ------------------------------------------------------------ the caller
NoWire == [size |-> 0, port |-> 0, ip |-> 0]
NotBlocked == [op |-> "none", fd |-> 0, w |-> NoWire, ptrok |-> TRUE]

\* What a perform() call returns: the errno ("Ok" for Ok(())), and the token it
\* was given (Cancel) or the descriptor it wrote to fd_out (0 when none).
\* late (history): a Cancel found the token's record already enqueued.
\* wire: the struct the call stored in the caller's address buffer, if any.
ReturnsWire(op, ret, val, w) ==
    lastRet' = [op |-> op, ret |-> ret, val |-> val, late |-> FALSE, wire |-> w]
Returns(op, ret, val) == ReturnsWire(op, ret, val, NoWire)

\* line 156: the immediate result of Nop.
NopResult == "ESUCCESS"

\* Fault: push_front instead of push_back.
PushLocalFront(q, e) == <<e>> \o q

\* line 474: local_completion.push_back
PushLocal(q, e) == Append(q, e)

\* enqueue_oneshot(Nop): resolved through the local queue, token 0.
EnqueueNop(ctx) ==
    /\ blocked = NotBlocked
    /\ local_completion' = PushLocal(local_completion,
            [code |-> NopResult, ctx |-> ctx, tok |-> 0, op |-> Len(enqueued) + 1])
    /\ enqueued' = Append(enqueued, [kind |-> "nop", ctx |-> ctx, tok |-> 0])
    /\ enqueue_ret' = EnqueueOk(ctx, 0)
    /\ UNCHANGED <<ongoing, ongoing_next, completed, accepted, tasks, fs, backlog,
                   incoming, delivered, cancelled, fd_map, send_file, os, lastRet, blocked>>

\* enqueue_oneshot(Delay)
EnqueueDelay(ctx) ==
    /\ blocked = NotBlocked
    /\ SpawnOneshot("delay", ctx, 0, NoAddr)
    /\ enqueue_ret' = EnqueueOk(ctx, ongoing_next)
    /\ UNCHANGED <<completed, local_completion, accepted, fs, backlog, incoming,
                   delivered, cancelled, fd_map, send_file, os, lastRet, blocked>>

\* lines 390-392: what stops SocketConnect before anything is spawned.
ConnectRejects(fd, w, ptrok) ==
    CASE ~HasSocket(fd) -> "EBADF"
      [] DecodeSocketAddr(w) = NoAddr -> "EINVAL"
      [] ~ptrok -> "EFAULT"
      [] OTHER -> "Ok"

\* enqueue_oneshot(SocketConnect)
EnqueueConnect(ctx, fd, w, ptrok) ==
    /\ blocked = NotBlocked
    /\ IF ConnectRejects(fd, w, ptrok) = "Ok"
       THEN /\ SpawnOneshot("connect", ctx, fd, DecodeSocketAddr(w))
            /\ enqueue_ret' = EnqueueOk(ctx, ongoing_next)
       ELSE /\ enqueue_ret' = EnqueueErr(ctx, ConnectRejects(fd, w, ptrok))
            /\ UNCHANGED <<ongoing, ongoing_next, tasks, enqueued>>
    /\ UNCHANGED <<completed, local_completion, accepted, fs, backlog, incoming,
                   delivered, cancelled, fd_map, send_file, os, lastRet, blocked>>

\* lines 166-289: enqueue_oneshot(Read) and enqueue_oneshot(Write): the
\* descriptor is resolved and the iovec list copied before the task is spawned.
EnqueueIo(kind, ctx, fd, iov, iovok) ==
    /\ blocked = NotBlocked
    /\ IF HasSocket(fd) /\ iovok
       THEN /\ SpawnWith(kind, ctx, fd, NoAddr, iov)
            /\ enqueue_ret' = EnqueueOk(ctx, ongoing_next)
       ELSE /\ enqueue_ret' = EnqueueErr(ctx, IF HasSocket(fd) THEN "EFAULT" ELSE "EBADF")
            /\ UNCHANGED <<ongoing, ongoing_next, tasks, enqueued>>
    /\ UNCHANGED <<completed, local_completion, accepted, fs, backlog, incoming,
                   delivered, cancelled, fd_map, send_file, os, lastRet, blocked>>

\* Fault: the token is taken before the descriptor is resolved.
EnqueuePreAcceptTokenFirst(ctx, fd) ==
    /\ blocked = NotBlocked
    /\ IF HasSocket(fd)
       THEN /\ SpawnOneshot("preaccept", ctx, fd, NoAddr)
            /\ enqueue_ret' = EnqueueOk(ctx, ongoing_next)
       ELSE /\ enqueue_ret' = EnqueueErr(ctx, "EBADF")
            /\ ongoing_next' = FetchAdd(ongoing_next)
            /\ UNCHANGED <<ongoing, tasks, enqueued>>
    /\ UNCHANGED <<completed, local_completion, accepted, fs, backlog, incoming,
                   delivered, cancelled, fd_map, send_file, os, lastRet, blocked>>

\* enqueue_oneshot(SocketPreAccept)
EnqueuePreAccept(ctx, fd) ==
    /\ blocked = NotBlocked
    /\ IF HasSocket(fd)
       THEN /\ SpawnOneshot("preaccept", ctx, fd, NoAddr)
            /\ enqueue_ret' = EnqueueOk(ctx, ongoing_next)
       ELSE /\ enqueue_ret' = EnqueueErr(ctx, "EBADF")
            /\ UNCHANGED <<ongoing, ongoing_next, tasks, enqueued>>
    /\ UNCHANGED <<completed, local_completion, accepted, fs, backlog, incoming,
                   delivered, cancelled, fd_map, send_file, os, lastRet, blocked>>

\* The completion records of token t enqueued so far, drained by wait() or not.
RecordsOf(t) ==
    Cardinality({i \in DOMAIN completed : completed[i].tok = t})
    + Cardinality({i \in DOMAIN delivered : delivered[i].tok = t})

\* Fault: Cancel reads the abort handle without removing it.
CancelKeeps(tok) == ongoing

\* line 493: the abort handle Cancel finds for the token, and what is left.
CancelFinds(tok) == tok \in ongoing
CancelLeaves(tok) == ongoing \ {tok}

\* perform(Cancel(token))
PerformCancel(tok) ==
    /\ blocked = NotBlocked
    /\ IF CancelFinds(tok)
       THEN /\ ongoing' = CancelLeaves(tok)
            /\ tasks' = [t \in DOMAIN tasks |->
                            IF t = tok THEN [tasks[t] EXCEPT !.aborted = TRUE] ELSE tasks[t]]
            /\ cancelled' = Append(cancelled, tok)
            /\ lastRet' = [op |-> "cancel", ret |-> "Ok", val |-> tok,
                            late |-> RecordsOf(tok) > 0, wire |-> NoWire]
       ELSE /\ lastRet' = [op |-> "cancel", ret |-> "EINVAL", val |-> tok,
                            late |-> RecordsOf(tok) > 0, wire |-> NoWire]
            /\ UNCHANGED <<ongoing, tasks, cancelled>>
    /\ UNCHANGED <<ongoing_next, completed, local_completion, accepted, fs, backlog,
                   incoming, enqueued, delivered, blocked, wasix>>

\* lines 506-514: the inner state a new socket gets, "" when the pair is refused.
\* Fault: the socket type is not looked at.
CreateInnerAnyType(domain, ty) ==
    CASE domain = "AF_INET" -> "Undefined4"
      [] domain = "AF_INET6" -> "Undefined6"
      [] OTHER -> ""

CreateInner(domain, ty) ==
    CASE domain = "AF_INET" /\ ty = "SOCK_STREAM" -> "Undefined4"
      [] domain = "AF_INET6" /\ ty = "SOCK_STREAM" -> "Undefined6"
      [] OTHER -> ""

\* perform(SocketCreate)
PerformSocketCreate(domain, ty, ptrok) ==
    /\ blocked = NotBlocked
    /\ IF ptrok /\ CreateInner(domain, ty) # ""
       THEN /\ fs' = Append(fs, NewSocket(CreateInner(domain, ty)))
            /\ backlog' = Append(backlog, << >>)
            /\ Returns("create", "Ok", Len(fs) + 1)
       ELSE /\ Returns("create", IF ptrok THEN "EINVAL" ELSE "EFAULT", 0)
            /\ UNCHANGED <<fs, backlog>>
    /\ UNCHANGED <<ongoing, ongoing_next, completed, local_completion, accepted, tasks,
                   incoming, enqueued, delivered, cancelled, wasix, blocked>>

\* Fault: bind looks at the size of the struct, not at the socket's family.
BindIgnoresFamily(s, w, ptrok) ==
    IF w.size \in {SizeIn, SizeIn6} /\ s.inner \in {"Undefined4", "Undefined6"}
    THEN IF ptrok THEN "Ok" ELSE "EFAULT"
    ELSE "EINVAL"

\* lines 537-565: the result of bind on socket s.
BindResult(s, w, ptrok) ==
    CASE w.size = SizeIn /\ s.inner = "Undefined4" -> IF ptrok THEN "Ok" ELSE "EFAULT"
      [] w.size = SizeIn6 /\ s.inner = "Undefined6" -> IF ptrok THEN "Ok" ELSE "EFAULT"
      [] OTHER -> "EINVAL"

\* lines 536-565: bind, holding the socket's write lock.
BindLocked(fd, w, ptrok) ==
    /\ IF BindResult(fs[fd], w, ptrok) = "Ok"
       THEN fs' = [fs EXCEPT ![fd].inner = "Binded", ![fd].local = DecodeSocketAddr(w)]
       ELSE UNCHANGED fs
    /\ Returns("bind", BindResult(fs[fd], w, ptrok), 0)
    /\ UNCHANGED backlog

\* What TcpListener::bind(addr) gives: the address the listener really has,
\* and AddrInUse when another listener of this host already has it.
HostListenAddr(fd, addr) ==
    IF addr.port = HostPorts.any THEN [addr EXCEPT !.port = HostPorts.ephemeral + fd]
    ELSE addr
HostListen(fd, addr) ==
    IF \E o \in DOMAIN fs : o # fd /\ fs[o].inner = "Listening"
                            /\ fs[o].local = HostListenAddr(fd, addr)
    THEN "AddrInUse" ELSE "Ok"

\* lines 572-585: the states listen may start from.
ListenLegal(inner) == inner = "Binded"

\* lines 571-585: listen, holding the socket's write lock.
ListenLocked(fd) ==
    /\ IF ~ListenLegal(fs[fd].inner)
       THEN /\ Returns("listen", "EINVAL", 0)
            /\ UNCHANGED fs
       ELSE IF HostListen(fd, fs[fd].local) # "Ok"
       THEN /\ Returns("listen", FromTokioError(HostListen(fd, fs[fd].local)), 0)
            /\ UNCHANGED fs
       ELSE /\ fs' = [fs EXCEPT ![fd].inner = "Listening",
                                ![fd].local = HostListenAddr(fd, fs[fd].local)]
            /\ Returns("listen", "Ok", 0)
    /\ UNCHANGED backlog

\* The body of a perform() call that needs the socket's write lock.
PerformLocked(c) ==
    IF c.op = "bind" THEN BindLocked(c.fd, c.w, c.ptrok) ELSE ListenLocked(c.fd)

\* perform(SocketBind) when the descriptor is absent or the lock is free.
PerformSocketBind(fd, w, ptrok) ==
    /\ blocked = NotBlocked
    /\ IF ~HasSocket(fd)
       THEN /\ Returns("bind", "EBADF", 0)
            /\ UNCHANGED <<fs, backlog>>
       ELSE /\ WriteFree(fs[fd])
            /\ BindLocked(fd, w, ptrok)
    /\ UNCHANGED <<ongoing, ongoing_next, completed, local_completion, accepted, tasks,
                   incoming, enqueued, delivered, cancelled, wasix, blocked>>

\* perform(SocketListen) when the descriptor is absent or the lock is free.
PerformSocketListen(fd) ==
    /\ blocked = NotBlocked
    /\ IF ~HasSocket(fd)
       THEN /\ Returns("listen", "EBADF", 0)
            /\ UNCHANGED <<fs, backlog>>
       ELSE /\ WriteFree(fs[fd])
            /\ ListenLocked(fd)
    /\ UNCHANGED <<ongoing, ongoing_next, completed, local_completion, accepted, tasks,
                   incoming, enqueued, delivered, cancelled, wasix, blocked>>

\* lines 535-536, 570-571: block_on(sock.inner.write()) while a task holds the
\* lock: the caller's thread stays inside perform().
PerformBlocks(op, fd, w, ptrok) ==
    /\ blocked = NotBlocked
    /\ HasSocket(fd)
    /\ ~WriteFree(fs[fd])
    /\ blocked' = [op |-> op, fd |-> fd, w |-> w, ptrok |-> ptrok]
    /\ UNCHANGED <<ongoing, ongoing_next, completed, local_completion, accepted, tasks,
                   fs, backlog, incoming, enqueued, delivered, cancelled, wasix, lastRet>>

\* The lock is released and the blocked perform() call goes on.
PerformResumes ==
    /\ blocked # NotBlocked
    /\ WriteFree(fs[blocked.fd])
    /\ PerformLocked(blocked)
    /\ blocked' = NotBlocked
    /\ UNCHANGED <<ongoing, ongoing_next, completed, local_completion, accepted, tasks,
                   incoming, enqueued, delivered, cancelled, wasix>>

\* Fault: the listener's own address is recorded as the remote address.
AcceptedRemoteIsLocal(c) == fs[c.via].local

\* line 595: remote_address: Some(addr), the peer of the accepted connection.
AcceptedRemote(c) == c.peer

\* Fault: an empty hand-off queue is reported as a bad descriptor.
AcceptNoneBadf == "EBADF"

\* line 624: what accept-poll returns when try_recv() finds nothing.
AcceptNone == "EAGAIN"

\* perform(SocketAccept): a non-blocking pull from the hand-off queue.
PerformSocketAccept(ptrok, size) ==
    /\ blocked = NotBlocked
    /\ IF accepted = << >>
       THEN /\ Returns("accept", AcceptNone, 0)
            /\ UNCHANGED <<accepted, fs, backlog>>
       ELSE /\ accepted' = Tail(accepted)
            /\ IF ~ptrok
               THEN /\ Returns("accept", "EFAULT", 0)
                    /\ UNCHANGED <<fs, backlog>>
               ELSE /\ fs' = Append(fs, [NewSocket("Stream") EXCEPT
                                !.local = fs[Head(accepted).via].local,
                                !.remote = AcceptedRemote(Head(accepted))])
                    /\ backlog' = Append(backlog, << >>)
                    /\ IF EncodeAccepts(size, Head(accepted).peer)
                       THEN ReturnsWire("accept", "Ok", Len(fs) + 1,
                                        EncodeWire(Head(accepted).peer))
                       ELSE Returns("accept", "EINVAL", Len(fs) + 1)
    /\ UNCHANGED <<ongoing, ongoing_next, completed, local_completion, tasks,
                   incoming, enqueued, delivered, cancelled, wasix, blocked>>

\* lines 920-950: encode_socket_addr checks the caller's size, then the buffer.
EncodeSocketAddr(size, addr, ptrok) ==
    IF ~EncodeAccepts(size, addr) THEN "EINVAL"
    ELSE IF ~ptrok THEN "EFAULT"
    ELSE "Ok"

\* lines 634-664: the error of a query the socket's state decides, if any.
AddrErr(s, remote) ==
    CASE s.inner = "Binded" -> IF remote THEN "ENOTCONN" ELSE "Ok"
      [] s.inner = "Listening" -> IF remote THEN "ENOTCONN" ELSE "Ok"
      [] s.inner = "Stream" -> IF remote /\ s.remote = NoAddr THEN "ENOTCONN" ELSE "Ok"
      [] OTHER -> "EINVAL"

\* lines 634-664: the address a query is answered with.
AddrOf(s, remote) == IF remote THEN s.remote ELSE s.local

AddrResult(s, remote, size, ptrok) ==
    IF AddrErr(s, remote) # "Ok" THEN AddrErr(s, remote)
    ELSE EncodeSocketAddr(size, AddrOf(s, remote), ptrok)

\* lines 627-668: perform(SocketAddr), under the socket's read lock. The value
\* it returns with is the content of the caller's size cell after the call:
\* sockaddr_size_ptr.set(actual_len) runs only after a successful encode.
PerformSocketAddr(fd, remote, size, sizeok, ptrok) ==
    /\ blocked = NotBlocked
    /\ IF ~HasSocket(fd) THEN Returns("addr", "EBADF", size)
       ELSE IF ~sizeok THEN Returns("addr", "EFAULT", size)
       ELSE /\ ReadFree(fs[fd])
            /\ IF AddrResult(fs[fd], remote, size, ptrok) = "Ok"
               THEN ReturnsWire("addr", "Ok", EncodedSize(AddrOf(fs[fd], remote)),
                                EncodeWire(AddrOf(fs[fd], remote)))
               ELSE Returns("addr", AddrResult(fs[fd], remote, size, ptrok), size)
    /\ UNCHANGED <<ongoing, ongoing_next, completed, local_completion, accepted, tasks,
                   fs, backlog, incoming, enqueued, delivered, cancelled, wasix, blocked>>

\* Fault: the cross-thread channel is served first.
WaitChannelFirst(l, c) == IF c # << >> THEN "chan" ELSE "local"

\* lines 673-678: the queue wait() takes its record from.
WaitSource(l, c) == IF l # << >> THEN "local" ELSE "chan"

\* wait(): the local queue first, then the cross-thread channel (recv blocks
\* while the channel is empty).
Wait ==
    /\ blocked = NotBlocked
    /\ LET src == WaitSource(local_completion, completed)
           x == IF src = "local" THEN Head(local_completion) ELSE Head(completed)
       IN
        /\ IF src = "local" THEN local_completion # << >> ELSE completed # << >>
        /\ IF src = "local"
           THEN local_completion' = Tail(local_completion) /\ UNCHANGED completed
           ELSE completed' = Tail(completed) /\ UNCHANGED local_completion
        /\ delivered' = Append(delivered,
                [code |-> x.code, ctx |-> x.ctx, tok |-> x.tok, op |-> x.op,
                 src |-> src, behind |-> Len(completed)])
    /\ UNCHANGED <<ongoing, ongoing_next, accepted, tasks, fs, backlog, incoming,
                   enqueued, cancelled, wasix, lastRet, blocked>>

\* --------------------------------------------------------------- the system

\* ------------------------------------------------ syscalls/wasix: sock_send_file
\* An entry of fd_map with its inode: the kind of the inode, the rights of the
\* descriptor, its offset, the bytes of the inode (the length of a file or a
\* buffer, the bytes a pipe, a socket or stdin still has to give) and the
\* bytes sent on it so far (a socket).
FdEntry(kind, rights, data) ==
    [kind |-> kind, rights |-> rights, offset |-> 0, data |-> data, sent |-> 0]

StdioMap ==
    [fd \in {STDIN_FILENO, STDOUT_FILENO, STDERR_FILENO} |->
        FdEntry("File", IF fd = STDIN_FILENO THEN {"FD_READ"} ELSE {"FD_WRITE"}, 0)]

NoCall ==
    [pc |-> "idle", sock |-> 0, in_fd |-> 0, count |-> 0, total_written |-> 0,
     ret |-> "", ret_sent |-> 0, calls |-> 0,
     n |-> 0, start |-> 0, m |-> 0, read |-> 0, asked |-> << >>, got |-> << >>]

Min(a, b) == IF a < b THEN a ELSE b

\* The kinds whose bytes are read at the descriptor's offset, and the kinds
\* that hand over what they have in the order it came.
Seekable == {"File", "Buffer"}
Streams == {"Pipe", "Socket"}

\* lines 59-77, 123-158: stdin, a pipe and a socket are read as streams.
IsStream(in_fd) == in_fd = STDIN_FILENO \/ fd_map[in_fd].kind \in Streams

\* The bytes the source can still give to a read at the given offset.
Available(in_fd, offset) ==
    IF IsStream(in_fd) THEN fd_map[in_fd].data
    ELSE IF offset < fd_map[in_fd].data THEN fd_map[in_fd].data - offset
    ELSE 0

\* lines 69, 108-111, 132, 148, 173: what one read of sub_count bytes may
\* return: a file or a buffer gives all it has up to sub_count; a pipe, a
\* socket or stdin may give fewer (here: one byte), and nothing at its end.
ReadAmounts(in_fd, sub_count) ==
    LET all == Min(sub_count, Available(in_fd, fd_map[in_fd].offset))
    IN  IF IsStream(in_fd) THEN {all} \cup (IF all > 1 THEN {1} ELSE {})
        ELSE {all}

\* line 203: what socket.send(data) may report: all the bytes, or fewer (here:
\* one byte).
SendAmounts(len) == {len} \cup (IF len > 1 THEN {1} ELSE {})

\* Fault: the read right of the source is not looked at.
SourceErrorNoRights(in_fd) ==
    CASE in_fd \notin DOMAIN fd_map -> "Badf"
      [] in_fd = STDIN_FILENO -> "Ok"
      [] in_fd \in {STDOUT_FILENO, STDERR_FILENO} -> "Inval"
      [] fd_map[in_fd].kind = "FileClosed" -> "Inval"
      [] fd_map[in_fd].kind \in {"Dir", "Root"} -> "Isdir"
      [] fd_map[in_fd].kind = "EventNotifications" -> "Inval"
      [] fd_map[in_fd].kind = "Symlink" -> "panic"
      [] fd_map[in_fd].kind = "Buffer" /\ fd_map[in_fd].offset > fd_map[in_fd].data -> "panic"
      [] OTHER -> "Ok"

\* lines 55-183: the error one iteration ends the call with before it reads,
\* "Ok" when it reads, "panic" for unimplemented!() (a symlink) and for the
\* slice &buffer[offset..] with the offset beyond the buffer.
SourceError(in_fd) ==
    CASE in_fd \notin DOMAIN fd_map -> "Badf"
      [] in_fd = STDIN_FILENO -> "Ok"
      [] in_fd \in {STDOUT_FILENO, STDERR_FILENO} -> "Inval"
      [] "FD_READ" \notin fd_map[in_fd].rights -> "Access"
      [] fd_map[in_fd].kind = "FileClosed" -> "Inval"
      [] fd_map[in_fd].kind \in {"Dir", "Root"} -> "Isdir"
      [] fd_map[in_fd].kind = "EventNotifications" -> "Inval"
      [] fd_map[in_fd].kind = "Symlink" -> "panic"
      [] fd_map[in_fd].kind = "Buffer" /\ fd_map[in_fd].offset > fd_map[in_fd].data -> "panic"
      [] OTHER -> "Ok"

\* lines 199-204: __sock_actor_mut(sock, Rights::SOCK_SEND, ..): the descriptor
\* is resolved, its rights are checked, its inode has to be a socket.
SockError(m, sock) ==
    CASE sock \notin DOMAIN m -> "Badf"
      [] "SOCK_SEND" \notin m[sock].rights -> "Access"
      [] m[sock].kind # "Socket" -> "Notsock"
      [] OTHER -> "Ok"

\* Fault: the offset is left where the call put it.
AfterReadNoAdvance(in_fd, amt) ==
    [fd_map EXCEPT ![in_fd].data = IF IsStream(in_fd) THEN @ - amt ELSE @]

\* The source after amt bytes were read from it: a stream has given them away,
\* and the offset of every source but stdin is advanced (lines 187-191).
AfterRead(in_fd, amt) ==
    [fd_map EXCEPT ![in_fd].data = IF IsStream(in_fd) THEN @ - amt ELSE @,
                   ![in_fd].offset = IF in_fd = STDIN_FILENO THEN @ ELSE @ + amt]

Ends(ret) == [send_file EXCEPT !.pc = IF ret = "panic" THEN "panicked" ELSE "returned",
                               !.ret = ret]

\* lines 41-50: the entry is looked up and its offset is stored.
SockSendFileEnter(sock, in_fd, offset, count) ==
    /\ send_file.pc \in {"idle", "returned"}
    /\ IF in_fd \notin DOMAIN fd_map
       THEN /\ send_file' = [NoCall EXCEPT !.pc = "returned", !.ret = "Badf",
                                          !.sock = sock, !.in_fd = in_fd, !.n = count,
                                          !.calls = send_file.calls + 1]
            /\ UNCHANGED fd_map
       ELSE /\ fd_map' = [fd_map EXCEPT ![in_fd].offset = offset]
            /\ send_file' = [NoCall EXCEPT !.pc = "loop", !.sock = sock, !.in_fd = in_fd,
                                          !.count = count, !.n = count, !.start = offset,
                                          !.m = Available(in_fd, offset),
                                          !.calls = send_file.calls + 1]
    /\ UNCHANGED <<ongoing, ongoing_next, completed, local_completion, accepted, tasks,
                   fs, backlog, incoming, enqueued, delivered, cancelled, lastRet, blocked, os, enqueue_ret>>

\* lines 51-208: one iteration of the loop: sub_count bytes are asked of the
\* source, amt are read, and the socket reports sent of them as sent.
SockSendFileChunk(amt, sent) ==
    /\ send_file.pc = "loop"
    /\ send_file.count > 0
    /\ LET sub_count == Min(send_file.count, Chunk)
           in_fd == send_file.in_fd
           sock == send_file.sock
           asked == [send_file EXCEPT !.count = @ - sub_count,
                                      !.asked = Append(@, sub_count)]
       IN  IF SourceError(in_fd) # "Ok"
           THEN /\ send_file' = [asked EXCEPT !.pc = Ends(SourceError(in_fd)).pc,
                                              !.ret = SourceError(in_fd)]
                /\ UNCHANGED fd_map
           ELSE /\ amt \in ReadAmounts(in_fd, sub_count)
                /\ IF SockError(AfterRead(in_fd, amt), sock) # "Ok"
                   THEN /\ fd_map' = AfterRead(in_fd, amt)
                        /\ send_file' = [asked EXCEPT !.pc = "returned",
                                            !.ret = SockError(AfterRead(in_fd, amt), sock),
                                            !.read = @ + amt, !.got = Append(@, amt)]
                   ELSE /\ sent \in SendAmounts(amt)
                        /\ fd_map' = [AfterRead(in_fd, amt) EXCEPT ![sock].sent = @ + sent]
                        /\ send_file' = [asked EXCEPT !.total_written = @ + sent,
                                            !.read = @ + amt, !.got = Append(@, amt)]
    /\ UNCHANGED <<ongoing, ongoing_next, completed, local_completion, accepted, tasks,
                   fs, backlog, incoming, enqueued, delivered, cancelled, lastRet, blocked, os, enqueue_ret>>

\* lines 210-213: the loop is over: the total is written to ret_sent.
SockSendFileReturn(retok) ==
    /\ send_file.pc = "loop"
    /\ send_file.count = 0
    /\ send_file' = IF retok
                    THEN [send_file EXCEPT !.pc = "returned", !.ret = "Success",
                                           !.ret_sent = send_file.total_written]
                    ELSE [send_file EXCEPT !.pc = "returned", !.ret = "Memviolation"]
    /\ UNCHANGED <<ongoing, ongoing_next, completed, local_completion, accepted, tasks,
                   fs, backlog, incoming, enqueued, delivered, cancelled, lastRet, blocked,
                   fd_map, os, enqueue_ret>>

\* ------------------------------------------ syscalls/wasix: the sock_* calls
\* __sock_upgrade / __sock_actor_mut(ctx, sock, rights, ...): the descriptor
\* is resolved, the right is checked, the inode has to be a socket, and the
\* operation on the socket runs and returns done.
SockActor(sock, right, done) ==
    CASE sock \notin DOMAIN fd_map -> "Badf"
      [] right # "" /\ right \notin fd_map[sock].rights -> "Access"
      [] fd_map[sock].kind # "Socket" -> "Notsock"
      [] OTHER -> done

\* sock_bind.rs lines 24-35: the address is read from the guest's memory, then
\* the socket is resolved.
SockBind(sock, memok, valok, done) ==
    IF ~memok THEN "Memviolation"
    ELSE IF ~valok THEN "Inval"
    ELSE SockActor(sock, "SOCK_BIND", done)

\* sock_connect.rs lines 29-38
SockConnect(sock, memok, valok, done) ==
    IF ~memok THEN "Memviolation"
    ELSE IF ~valok THEN "Inval"
    ELSE SockActor(sock, "SOCK_CONNECT", done)

\* sock_set_opt_flag.rs lines 28-41: the flag is neither False nor True ->
\* Inval; then the socket is resolved, with no right asked for.
SockSetOptFlag(sock, memok, valok, done) ==
    IF ~valok THEN "Inval" ELSE SockActor(sock, "", done)

\* sock_set_opt_time.rs lines 26-51: the timestamp is read from memory, its
\* tag and the option are matched, then the socket is resolved.
SockSetOptTime(sock, memok, valok, done) ==
    IF ~memok THEN "Memviolation"
    ELSE IF ~valok THEN "Inval"
    ELSE SockActor(sock, "", done)

\* One call of the dispatch layer: memok, the pointer lies in the guest's
\* memory; valok, the value read is one the call accepts.
Syscall(call, sock, memok, valok, done) ==
    /\ syscall_ret' =
            [call |-> call, sock |-> sock, memok |-> memok, valok |-> valok,
             ret |-> CASE call = "sock_bind" -> SockBind(sock, memok, valok, done)
                       [] call = "sock_connect" -> SockConnect(sock, memok, valok, done)
                       [] call = "sock_set_opt_flag" -> SockSetOptFlag(sock, memok, valok, done)
                       [] OTHER -> SockSetOptTime(sock, memok, valok, done)]
    /\ UNCHANGED <<ongoing, ongoing_next, completed, local_completion, accepted, tasks,
                   fs, backlog, incoming, enqueued, delivered, cancelled, lastRet, blocked,
                   fd_map, send_file, commands, stderr, exec_ret, enqueue_ret>>

\* ---------------------------------------------------------------- commands
\* src/lib/wasi/src/os/command/mod.rs

NoExec == [path |-> "", ret |-> "none", cmd |-> "", code |-> ""]

CommandPathBare(name) == name

\* line 51: format!("/bin/{}", cmd.name())
CommandPath(name) == "/bin/" \o name

\* line 88: format!("wasm command unknown - {}\r\n", path)
UnknownMessage(path) == "wasm command unknown - " \o path \o "\r\n"

\* lines 64-68
Exists(path) == path \in DOMAIN commands

\* lines 70-73: None is the empty string
Get(path) == IF path \in DOMAIN commands THEN commands[path] ELSE ""

\* lines 55-62: HashMap::insert replaces what was registered at the path.
RegisterCommandWithPath(cmd, path) ==
    /\ commands' = [p \in DOMAIN commands \cup {path} |->
                        IF p = path THEN cmd ELSE commands[p]]
    /\ UNCHANGED <<ongoing, ongoing_next, completed, local_completion, accepted, tasks,
                   fs, backlog, incoming, enqueued, delivered, cancelled, lastRet, blocked,
                   fd_map, send_file, stderr, exec_ret, syscall_ret, enqueue_ret>>

\* lines 50-53: a command is a name; cmd.name() is the command itself.
RegisterCommand(cmd) == RegisterCommandWithPath(cmd, CommandPath(cmd))

\* lines 76-93: a registered command is run and what it returns is returned
\* (ran: it spawned a process, or it failed); for any other path the message
\* is written to stderr, the result of the write is dropped, and an exited
\* process with Errno::Noent is returned.
Exec(path, ran) ==
    /\ IF path \in DOMAIN commands
       THEN /\ exec_ret' = [path |-> path, ret |-> IF ran THEN "Ok" ELSE "Err",
                            cmd |-> commands[path], code |-> ""]
            /\ UNCHANGED stderr
       ELSE /\ stderr' = Append(stderr, UnknownMessage(path))
            /\ exec_ret' = [path |-> path, ret |-> "Ok", cmd |-> "exited_process",
                            code |-> "Noent"]
    /\ UNCHANGED <<ongoing, ongoing_next, completed, local_completion, accepted, tasks,
                   fs, backlog, incoming, enqueued, delivered, cancelled, lastRet, blocked,
                   fd_map, send_file, commands, syscall_ret, enqueue_ret>>

Init ==
    /\ ongoing = {}
    /\ ongoing_next = FirstToken
    /\ completed = << >>
    /\ local_completion = << >>
    /\ accepted = << >>
    /\ tasks = << >>
    /\ fs = << >>
    /\ backlog = << >>
    /\ incoming = 0
    /\ enqueued = << >>
    /\ delivered = << >>
    /\ cancelled = << >>
    /\ lastRet = [op |-> "none", ret |-> "", val |-> 0, late |-> FALSE, wire |-> NoWire]
    /\ blocked = NotBlocked
    /\ fd_map = StdioMap
    /\ send_file = NoCall
    /\ commands = << >>
    /\ stderr = << >>
    /\ exec_ret = NoExec
    /\ syscall_ret = [call |-> "none", sock |-> 0, memok |-> TRUE, valok |-> TRUE, ret |-> ""]
    /\ enqueue_ret = [ctx |-> 0, ret |-> "none", tok |-> 0]

Domains == {"AF_INET", "AF_INET6", "AF_UNIX"}
Types == {"SOCK_STREAM", "SOCK_DGRAM"}
Fds == 1..MaxFd
Tokens == 0..MaxTokens
HostAnswers == {"Ok", "NotConnected", "ConnectionRefused", "AddrNotAvailable"}

\* The wire structs the guest binds to: one port, every size.
BindWires == {w \in WireStructs : w.port = ToBe16(HostPorts.up)}

\* Room left under the bounds of the model.
RoomToSpawn == Spawned < MaxTokens
RoomLocal == Local < MaxLocal
RoomFd == Len(fs) < MaxFd
RoomIncoming == incoming < MaxIncoming

\* The steps of the runtime's worker threads that every task takes.
WrapperStep ==
    \/ \E t \in Tokens : TaskRemove(t)
    \/ \E t \in Tokens : TaskSend(t)

AbortStep == \E t \in Tokens : TaskAborted(t)

DelayStep == \E t \in Tokens : TaskDelayElapsed(t)

ConnectStep ==
    \/ \E t \in Tokens : TaskConnectLock(t)
    \/ \E t \in Tokens, answer \in HostAnswers : TaskConnectDone(t, answer)

AcceptStep ==
    \/ \E t \in Tokens : TaskAcceptLock(t)
    \/ \E t \in Tokens : TaskAcceptListener(t)
    \/ \E t \in Tokens : TaskAcceptOk(t)
    \/ \E t \in Tokens : TaskAcceptErr(t)
    \/ \E t \in Tokens : TaskAcceptSend(t)

\* The queues of the executor: operations resolved through the local queue and
\* delays on the runtime, cancellation and wait(); no sockets.
QueueNext ==
    \/ RoomLocal /\ \E ctx \in UserContexts : EnqueueNop(ctx)
    \/ RoomToSpawn /\ \E ctx \in UserContexts : EnqueueDelay(ctx)
    \/ \E tok \in ongoing : PerformCancel(tok)
    \/ Wait
    \/ WrapperStep
    \/ AbortStep
    \/ DelayStep

QueueSpec == Init /\ [][QueueNext]_vars

\* Cancellation against completion: delays and connects of one IPv4 socket on
\* the runtime, cancellation and wait().
CancelNext ==
    \/ RoomToSpawn /\ \E ctx \in UserContexts : EnqueueDelay(ctx)
    \/ RoomToSpawn /\ \E ctx \in UserContexts, w \in WireStructs :
            w.size = SizeIn /\ EnqueueConnect(ctx, 1, w, TRUE)
    \/ \E tok \in Tokens : PerformCancel(tok)
    \/ fs = << >> /\ PerformSocketCreate("AF_INET", "SOCK_STREAM", TRUE)
    \/ Wait
    \/ WrapperStep
    \/ AbortStep
    \/ DelayStep
    \/ ConnectStep

CancelSpec == Init /\ [][CancelNext]_vars

\* The life of a socket: creation with every argument, bind, listen and connect
\* in every state of the socket, an accept loop with the host's peers and the
\* sockets accept() makes; well-formed addresses, one user context.
StateNext ==
    \/ RoomFd /\ \E domain \in Domains, ty \in Types, ptrok \in BOOLEAN :
            PerformSocketCreate(domain, ty, ptrok)
    \/ \E fd \in Fds, w \in BindWires : PerformSocketBind(fd, w, TRUE)
    \/ \E fd \in Fds : PerformSocketListen(fd)
    \/ \E fd \in Fds, w \in BindWires : PerformBlocks("bind", fd, w, TRUE)
    \/ \E fd \in Fds : PerformBlocks("listen", fd, NoWire, TRUE)
    \/ PerformResumes
    \/ accepted # << >> /\ RoomFd /\ PerformSocketAccept(TRUE, SizeIn)
    \/ RoomToSpawn /\ \E fd \in Fds, w \in WireStructs :
            w.size = SizeIn /\ EnqueueConnect(1, fd, w, TRUE)
    \/ RoomToSpawn /\ \E fd \in Fds : EnqueuePreAccept(1, fd)
    \/ RoomIncoming /\ \E fd \in Fds : HostIncoming(fd)
    \/ WrapperStep
    \/ ConnectStep
    \/ AcceptStep

StateSpec == Init /\ [][StateNext]_vars

\* Bind against the socket's state and family: sockets of both families, bind
\* with every size of struct and with a pointer in or out of the guest's memory,
\* listen and connect to move the sockets on, perform() waiting for the lock.
BindNext ==
    \/ RoomFd /\ \E domain \in {"AF_INET", "AF_INET6"} :
            PerformSocketCreate(domain, "SOCK_STREAM", TRUE)
    \/ \E fd \in Fds, w \in BindWires, ptrok \in BOOLEAN : PerformSocketBind(fd, w, ptrok)
    \/ \E fd \in Fds : PerformSocketListen(fd)
    \/ \E fd \in Fds, w \in BindWires, ptrok \in BOOLEAN : PerformBlocks("bind", fd, w, ptrok)
    \/ PerformResumes
    \/ RoomToSpawn /\ \E fd \in Fds, w \in WireStructs :
            w.size = SizeIn /\ EnqueueConnect(1, fd, w, TRUE)
    \/ WrapperStep
    \/ ConnectStep

BindSpec == Init /\ [][BindNext]_vars

\* Connect against the socket's state and family: sockets of both families,
\* bound or listening or neither, connects with a struct of either family to a
\* peer that accepts or one that resets, and wait().
ConnectWires ==
    [size : {SizeIn, SizeIn6},
     port : {ToBe16(HostPorts.up), ToBe16(HostPorts.refused)},
     ip : {1}]

ConnectNext ==
    \/ RoomFd /\ \E domain \in {"AF_INET", "AF_INET6"} :
            PerformSocketCreate(domain, "SOCK_STREAM", TRUE)
    \/ \E fd \in Fds, w \in BindWires : w.size # 8 /\ PerformSocketBind(fd, w, TRUE)
    \/ \E fd \in Fds : PerformSocketListen(fd)
    \/ RoomToSpawn /\ \E fd \in Fds, w \in ConnectWires : EnqueueConnect(1, fd, w, TRUE)
    \/ Wait
    \/ WrapperStep
    \/ ConnectStep

ConnectSpec == Init /\ [][ConnectNext]_vars

\* Cancellation against a connect that holds the socket's lock: one IPv4
\* socket, bind and connect on it, perform() waiting for the lock, cancellation
\* and wait().
AbortNext ==
    \/ fs = << >> /\ PerformSocketCreate("AF_INET", "SOCK_STREAM", TRUE)
    \/ \E w \in BindWires : w.size = SizeIn /\ PerformSocketBind(1, w, TRUE)
    \/ \E w \in BindWires : w.size = SizeIn /\ PerformBlocks("bind", 1, w, TRUE)
    \/ PerformResumes
    \/ RoomToSpawn /\ \E w \in WireStructs : w.size = SizeIn /\ EnqueueConnect(1, 1, w, TRUE)
    \/ \E tok \in Tokens : PerformCancel(tok)
    \/ Wait
    \/ WrapperStep
    \/ AbortStep
    \/ ConnectStep

AbortSpec == Init /\ [][AbortNext]_vars

\* The accept path of one listener: an IPv4 socket bound and made to listen,
\* accept loops enqueued on it in every state, peers connecting, accept-poll
\* with a pointer in or out of the guest's memory and a buffer that is large
\* enough or too small, and wait().
AcceptNext ==
    \/ fs = << >> /\ PerformSocketCreate("AF_INET", "SOCK_STREAM", TRUE)
    \/ \E w \in BindWires : w.size = SizeIn /\ PerformSocketBind(1, w, TRUE)
    \/ PerformSocketListen(1)
    \/ RoomToSpawn /\ EnqueuePreAccept(1, 1)
    \/ incoming < MaxPeers /\ HostIncoming(1)
    \/ (accepted = << >> \/ Len(fs) < MaxSockets) /\ \E ptrok \in BOOLEAN, size \in {SizeIn, SizeIn6, 8} :
            PerformSocketAccept(ptrok, size)
    \/ Wait
    \/ WrapperStep
    \/ AcceptStep

AcceptSpec == Init /\ [][AcceptNext]_vars

\* Two listeners on one executor, on two ports: the guest enqueues the accept
\* loop of a listener with the listener's descriptor as user context, peers
\* connect to either, and accept-poll (which names no listener) and wait().
ListenersSpec ==
    Init /\
    [][\/ Len(fs) < 2 /\ PerformSocketCreate("AF_INET", "SOCK_STREAM", TRUE)
       \/ \E fd \in 1..2, w \in WireStructs :
            /\ w.size = SizeIn
            /\ w.port = ToBe16(IF fd = 1 THEN HostPorts.up ELSE HostPorts.silent)
            /\ PerformSocketBind(fd, w, TRUE)
       \/ \E fd \in 1..2 : PerformSocketListen(fd)
       \/ RoomToSpawn /\ \E fd \in 1..2 :
            fd \in DOMAIN fs /\ fs[fd].inner = "Listening" /\ EnqueuePreAccept(fd, fd)
       \/ incoming < MaxPeers /\ \E fd \in 1..2 : HostIncoming(fd)
       \/ (accepted = << >> \/ Len(fs) < 2 + MaxPeers) /\ PerformSocketAccept(TRUE, SizeIn)
       \/ Wait
       \/ WrapperStep
       \/ AcceptStep]_vars

\* The sizes a guest passes in its size cell: short, IPv4, IPv6.
AddrSizes == {8, SizeIn, SizeIn6}

\* Address queries on sockets in every state.
AddrNext ==
    \/ RoomFd /\ \E domain \in {"AF_INET", "AF_INET6"} :
            PerformSocketCreate(domain, "SOCK_STREAM", TRUE)
    \/ \E fd \in Fds, w \in BindWires : w.size # 8 /\ PerformSocketBind(fd, w, TRUE)
    \/ \E fd \in Fds : PerformSocketListen(fd)
    \/ RoomToSpawn /\ \E fd \in Fds, w \in ConnectWires :
            w.port = ToBe16(HostPorts.up) /\ EnqueueConnect(1, fd, w, TRUE)
    \/ \E fd \in Fds \cup {MaxFd + 1}, remote \in BOOLEAN, size \in AddrSizes,
          sizeok \in BOOLEAN, ptrok \in BOOLEAN :
            PerformSocketAddr(fd, remote, size, sizeok, ptrok)
    \/ WrapperStep
    \/ ConnectStep

AddrSpec == Init /\ [][AddrNext]_vars

\* The iovec lists of the guest, and what the host answers to a read or write.
Iovs == [len : 0..MaxLen, ok : BOOLEAN]
HostIoAnswers == {"Ok", "ConnectionReset"}

IoStep ==
    \/ \E t \in Tokens : TaskReadLock(t)
    \/ \E t \in Tokens : TaskReadHalf(t)
    \/ \E t \in Tokens, n \in 0..MaxLen, answer \in HostIoAnswers : TaskReadDone(t, n, answer)
    \/ \E t \in Tokens : TaskWriteLock(t)
    \/ \E t \in Tokens : TaskWriteHalf(t)
    \/ \E t \in Tokens, n \in 0..MaxLen, answer \in HostIoAnswers : TaskWriteDone(t, n, answer)

\* Reads and writes on sockets in every state.
IoNext ==
    \/ RoomFd /\ PerformSocketCreate("AF_INET", "SOCK_STREAM", TRUE)
    \/ \E fd \in Fds, w \in BindWires : w.size = SizeIn /\ PerformSocketBind(fd, w, TRUE)
    \/ \E fd \in Fds : PerformSocketListen(fd)
    \/ RoomToSpawn /\ \E fd \in Fds, w \in ConnectWires :
            w.size = SizeIn /\ w.port = ToBe16(HostPorts.up) /\ EnqueueConnect(1, fd, w, TRUE)
    \/ RoomToSpawn /\ \E kind \in {"read", "write"}, fd \in Fds, iov \in Iovs, iovok \in BOOLEAN :
            EnqueueIo(kind, 1, fd, iov, iovok)
    \/ Wait
    \/ WrapperStep
    \/ ConnectStep
    \/ IoStep

IoSpec == Init /\ [][IoNext]_vars

\* Operations enqueued with arguments that are refused at once, among ones
\* that are accepted: a descriptor that is not open, an address struct of 8
\* bytes, a pointer outside the guest's memory.
EnqueueNext ==
    \/ RoomFd /\ PerformSocketCreate("AF_INET", "SOCK_STREAM", TRUE)
    \/ RoomToSpawn /\ \E ctx \in UserContexts, fd \in Fds, size \in {8, SizeIn}, ptrok \in BOOLEAN :
            EnqueueConnect(ctx, fd, [size |-> size, port |-> ToBe16(HostPorts.up), ip |-> 1], ptrok)
    \/ RoomToSpawn /\ \E kind \in {"read", "write"}, ctx \in UserContexts, fd \in Fds, iovok \in BOOLEAN :
            EnqueueIo(kind, ctx, fd, [len |-> 1, ok |-> TRUE], iovok)
    \/ \E ctx \in UserContexts, fd \in Fds : ~HasSocket(fd) /\ EnqueuePreAccept(ctx, fd)
    \/ Wait
    \/ WrapperStep
    \/ ConnectStep
    \/ IoStep

EnqueueSpec == Init /\ [][EnqueueNext]_vars

\* The descriptors of the guest beside stdio: a source, a socket to send on,
\* and one that is not open.
SourceFd == 3
SockFd == 4
ClosedFd == 5

SourceKinds ==
    {"File", "FileClosed", "Socket", "Pipe", "Dir", "Root", "EventNotifications",
     "Symlink", "Buffer"}
Lengths == {0, 2, Chunk + 1}
Counts == {0, 1, Chunk, Chunk + 1, 2 * Chunk + 1}
Offsets == {0, 1, Chunk + 2}
Amounts == (0 .. 2) \cup ((Chunk - 2) .. Chunk)

\* A guest with stdio, one source of any kind, with or without the read right,
\* and a socket, with or without the right to send.
SendFileInit ==
    /\ ongoing = {}
    /\ ongoing_next = FirstToken
    /\ completed = << >>
    /\ local_completion = << >>
    /\ accepted = << >>
    /\ tasks = << >>
    /\ fs = << >>
    /\ backlog = << >>
    /\ incoming = 0
    /\ enqueued = << >>
    /\ delivered = << >>
    /\ cancelled = << >>
    /\ lastRet = [op |-> "none", ret |-> "", val |-> 0, late |-> FALSE, wire |-> NoWire]
    /\ blocked = NotBlocked
    /\ \E kind \in SourceKinds, rights \in {{"FD_READ"}, {"FD_WRITE"}}, data \in Lengths,
          stdin \in {0, 2}, send \in {{"SOCK_SEND", "SOCK_BIND", "SOCK_CONNECT"}, {}} :
            fd_map = [fd \in {STDIN_FILENO, STDOUT_FILENO, STDERR_FILENO, SourceFd, SockFd} |->
                        CASE fd = SourceFd -> FdEntry(kind, rights, data)
                          [] fd = SockFd -> FdEntry("Socket", send, 0)
                          [] fd = STDIN_FILENO -> FdEntry("File", {"FD_READ"}, stdin)
                          [] OTHER -> StdioMap[fd]]
    /\ send_file = NoCall
    /\ commands = << >>
    /\ stderr = << >>
    /\ exec_ret = NoExec
    /\ syscall_ret = [call |-> "none", sock |-> 0, memok |-> TRUE, valok |-> TRUE, ret |-> ""]
    /\ enqueue_ret = [ctx |-> 0, ret |-> "none", tok |-> 0]

SendFileNext ==
    \/ /\ send_file.calls < MaxCalls
       /\ \E sock \in {SockFd, ClosedFd},
             in_fd \in {STDIN_FILENO, STDOUT_FILENO, STDERR_FILENO, SourceFd, ClosedFd},
             offset \in Offsets, count \in Counts :
                SockSendFileEnter(sock, in_fd, offset, count)
    \/ \E amt \in Amounts, sent \in Amounts : SockSendFileChunk(amt, sent)
    \/ \E retok \in BOOLEAN : SockSendFileReturn(retok)

SendFileSpec == SendFileInit /\ [][SendFileNext]_vars

\* The sock_* calls on every descriptor of that guest, with arguments that are
\* valid or not.
DispatchSpec ==
    SendFileInit /\
    [][\E call \in {"sock_bind", "sock_connect", "sock_set_opt_flag", "sock_set_opt_time"},
          sock \in {STDOUT_FILENO, SourceFd, SockFd, ClosedFd},
          memok \in BOOLEAN, valok \in BOOLEAN, done \in {"Success", "Addrinuse"} :
            Syscall(call, sock, memok, valok, done)]_vars

\* A registry that commands are registered in, by name and at a path of the
\* caller's choice, and that paths, registered or not, are executed from.
MaxStderr == 2
Names == {"ls", "cat", "/bin/ls"}
Paths == {"/bin/ls", "/bin/cat", "ls", "/bin/l", "/bin/ls/", "/bin//bin/ls", "bin/ls"}

CommandNext ==
    \/ \E cmd \in Names : RegisterCommand(cmd)
    \/ \E cmd \in Names, path \in {"ls", "/bin/ls"} : RegisterCommandWithPath(cmd, path)
    \/ \E path \in Paths, ran \in BOOLEAN :
            /\ Len(stderr) < MaxStderr
            /\ Exec(path, ran)

CommandSpec == Init /\ [][CommandNext]_vars

\* std::io::ErrorKind: the kinds from_tokio_error names, and kinds it does not.
ErrorKinds ==
    {"NotFound", "PermissionDenied", "ConnectionRefused", "ConnectionReset",
     "ConnectionAborted", "NotConnected", "AddrInUse", "AddrNotAvailable",
     "BrokenPipe", "AlreadyExists", "WouldBlock", "InvalidInput", "InvalidData",
     "TimedOut", "WriteZero", "Interrupted", "UnexpectedEof",
     "Other", "Unsupported", "OutOfMemory"}

\* Reads and writes on a connected socket that the host fails in every way.
ErrNext ==
    \/ RoomFd /\ PerformSocketCreate("AF_INET", "SOCK_STREAM", TRUE)
    \/ RoomToSpawn /\ \E fd \in Fds, w \in ConnectWires :
            w.size = SizeIn /\ w.port = ToBe16(HostPorts.up) /\ EnqueueConnect(1, fd, w, TRUE)
    \/ RoomToSpawn /\ \E kind \in {"read", "write"}, fd \in Fds, ctx \in UserContexts :
            EnqueueIo(kind, ctx, fd, [len |-> 1, ok |-> TRUE], TRUE)
    \/ Wait
    \/ WrapperStep
    \/ ConnectStep
    \/ \E t \in Tokens : TaskReadLock(t)
    \/ \E t \in Tokens : TaskReadHalf(t)
    \/ \E t \in Tokens : TaskWriteLock(t)
    \/ \E t \in Tokens : TaskWriteHalf(t)
    \/ \E t \in Tokens, n \in {0, 1}, answer \in ErrorKinds \cup {"Ok"} : TaskReadDone(t, n, answer)
    \/ \E t \in Tokens, n \in {1}, answer \in ErrorKinds \cup {"Ok"} : TaskWriteDone(t, n, answer)

ErrSpec == Init /\ [][ErrNext]_vars

\* The addresses the codec is applied to: both families, every port.
CodecAddrs == [fam : {4, 6}, ip : {1}, port : 0..PortMax]

\* A socket bound to the address, and an unbound one of the same family.
CodecInit ==
    /\ ongoing = {}
    /\ ongoing_next = FirstToken
    /\ completed = << >>
    /\ local_completion = << >>
    /\ accepted = << >>
    /\ tasks = << >>
    /\ \E a \in CodecAddrs :
            fs = << [NewSocket("Binded") EXCEPT !.local = a],
                    NewSocket(IF a.fam = 4 THEN "Undefined4" ELSE "Undefined6") >>
    /\ backlog = << << >>, << >> >>
    /\ incoming = 0
    /\ enqueued = << >>
    /\ delivered = << >>
    /\ cancelled = << >>
    /\ lastRet = [op |-> "none", ret |-> "", val |-> 0, late |-> FALSE, wire |-> NoWire]
    /\ blocked = NotBlocked
    /\ fd_map = StdioMap
    /\ send_file = NoCall
    /\ commands = << >>
    /\ stderr = << >>
    /\ exec_ret = NoExec
    /\ syscall_ret = [call |-> "none", sock |-> 0, memok |-> TRUE, valok |-> TRUE, ret |-> ""]
    /\ enqueue_ret = [ctx |-> 0, ret |-> "none", tok |-> 0]

\* One connected socket (a Stream, as accept-poll or a connect leaves it), with
\* reads and writes enqueued on it.
HalfInit ==
    /\ ongoing = {}
    /\ ongoing_next = FirstToken
    /\ completed = << >>
    /\ local_completion = << >>
    /\ accepted = << >>
    /\ tasks = << >>
    /\ fs = << [NewSocket("Stream") EXCEPT
                    !.local = [fam |-> 4, ip |-> 1, port |-> HostPorts.ephemeral],
                    !.remote = PeerAddr(1)] >>
    /\ backlog = << << >> >>
    /\ incoming = 0
    /\ enqueued = << >>
    /\ delivered = << >>
    /\ cancelled = << >>
    /\ lastRet = [op |-> "none", ret |-> "", val |-> 0, late |-> FALSE, wire |-> NoWire]
    /\ blocked = NotBlocked
    /\ fd_map = StdioMap
    /\ send_file = NoCall
    /\ commands = << >>
    /\ stderr = << >>
    /\ exec_ret = NoExec
    /\ syscall_ret = [call |-> "none", sock |-> 0, memok |-> TRUE, valok |-> TRUE, ret |-> ""]
    /\ enqueue_ret = [ctx |-> 0, ret |-> "none", tok |-> 0]

HalfNext ==
    \/ RoomToSpawn /\ \E kind \in {"read", "write"}, ctx \in UserContexts, iov \in Iovs :
            EnqueueIo(kind, ctx, 1, iov, TRUE)
    \/ Wait
    \/ WrapperStep
    \/ IoStep

HalfSpec == HalfInit /\ [][HalfNext]_vars

\* The guest asks for the socket's address (encode_socket_addr) and connects
\* the other socket to the struct it got, with the size it was told
\* (decode_socket_addr).
CodecNext ==
    \/ \E size \in AddrSizes : PerformSocketAddr(1, FALSE, size, TRUE, TRUE)
    \/ /\ tasks = << >>
       /\ lastRet.op = "addr" /\ lastRet.ret = "Ok"
       /\ EnqueueConnect(1, 2, lastRet.wire, TRUE)

CodecSpec == CodecInit /\ [][CodecNext]_vars

\* Fairness of the runtime and of the guest: a worker thread polls a task that
\* was woken (by the abort handle, by its own completion), and the guest keeps
\* calling wait().
LiveSpec ==
    /\ Init /\ [][CancelNext]_vars
    /\ \A t \in 1..MaxTokens :
        WF_vars(TaskAborted(t)) /\ WF_vars(TaskRemove(t)) /\ WF_vars(TaskSend(t))
    /\ WF_vars(Wait)

\* bind and listen on a socket that is being connected, read from and written
\* to.  The runtime's threads poll every task that can go on, the host answers
\* a connect (if only by its timeout), the guest calls wait(), and a perform()
\* call that waits for the lock goes on once the lock is free; the peer of a
\* connection owes no data and no room, so no read or write has to complete.
BlockNext ==
    \/ fs = << >> /\ PerformSocketCreate("AF_INET", "SOCK_STREAM", TRUE)
    \/ \E w \in BindWires : w.size = SizeIn /\ PerformSocketBind(1, w, TRUE)
    \/ PerformSocketListen(1)
    \/ \E op \in {"bind", "listen"}, w \in BindWires :
            w.size = SizeIn /\ PerformBlocks(op, 1, w, TRUE)
    \/ PerformResumes
    \/ RoomToSpawn /\ \E w \in ConnectWires :
            w.size = SizeIn /\ w.port = ToBe16(HostPorts.up) /\ EnqueueConnect(1, 1, w, TRUE)
    \/ RoomToSpawn /\ \E kind \in {"read", "write"} :
            EnqueueIo(kind, 1, 1, [len |-> 1, ok |-> TRUE], TRUE)
    \/ Wait
    \/ WrapperStep
    \/ ConnectStep
    \/ IoStep

BlockSpec ==
    /\ Init /\ [][BlockNext]_vars
    /\ WF_vars(PerformResumes)
    /\ WF_vars(WrapperStep)
    /\ WF_vars(ConnectStep)
    /\ \A t \in 1..MaxTokens :
        /\ WF_vars(TaskReadLock(t)) /\ WF_vars(TaskWriteLock(t))
        /\ WF_vars(TaskReadHalf(t)) /\ WF_vars(TaskWriteHalf(t))
    /\ WF_vars(Wait)

\* ================================================================= properties
Range(q) == {q[i] : i \in DOMAIN q}
Records == Range(completed) \cup Range(delivered)

\* C1: if Cancel(token) returned success, every completion record of that token
\* carries ECANCELED, never the operation's natural result.
C1_CancelledNeverNatural ==
    \A r \in Records : r.tok \in Range(cancelled) => r.code = "ECANCELED"

\* C2: a spawned task enqueues at most one completion record for its token
\* (never a natural and a Canceled one), and exactly one once it has finished.
C2_OneCompletionPerToken ==
    \A t \in DOMAIN tasks :
        /\ RecordsOf(t) <= 1
        /\ (tasks[t].pc = "done") <=> (RecordsOf(t) = 1)

C2_Witness ==
    \E i, j \in DOMAIN delivered :
        /\ delivered[i].tok # delivered[j].tok
        /\ delivered[i].tok \in Range(cancelled) /\ delivered[i].code = "ECANCELED"
        /\ delivered[j].tok \in DOMAIN tasks /\ delivered[j].code # "ECANCELED"

\* C3: a connect to an address that never answers, once cancelled with success,
\* leads to wait() returning the Canceled record with the connect's user context.
CancelledSilent(t) ==
    /\ t \in DOMAIN tasks
    /\ t \in Range(cancelled)
    /\ tasks[t].pc = "pending"
    /\ tasks[t].kind = "connect"
    /\ tasks[t].stage = "connecting"
    /\ tasks[t].addr.port = HostPorts.silent

DeliveredCanceled(t) ==
    \E i \in DOMAIN delivered :
        /\ delivered[i].tok = t
        /\ delivered[i].code = "ECANCELED"
        /\ delivered[i].ctx = enqueued[delivered[i].op].ctx

C3_CancelLeadsToCanceled ==
    \A t \in 1..MaxTokens : CancelledSilent(t) ~> DeliveredCanceled(t)

C3_Witness ==
    \E t \in 1..MaxTokens :
        /\ DeliveredCanceled(t)
        /\ enqueued[tasks[t].op].kind = "connect"
        /\ \E o \in DOMAIN fs : fs[o].inner = "Undefined4"

\* C4: over any sequence of Cancel calls for one token at most one returns
\* success; every Cancel after a successful one returns EINVAL.
C4_CancelOnce ==
    /\ \A i, j \in DOMAIN cancelled : i # j => cancelled[i] # cancelled[j]
    /\ (lastRet.op = "cancel" /\ lastRet.ret = "Ok")
            => (cancelled # << >> /\ cancelled[Len(cancelled)] = lastRet.val)

C4_Witness ==
    /\ lastRet.op = "cancel" /\ lastRet.ret = "EINVAL"
    /\ lastRet.val \in Range(cancelled)

\* C5: a Cancel issued when the token's completion record is already enqueued
\* (drained or not) returns EINVAL and changes neither the records nor the
\* bookkeeping of any token.
C5_LateCancelIsInvalid ==
    [][\A tok \in Tokens :
          (PerformCancel(tok) /\ RecordsOf(tok) > 0)
              => /\ lastRet'.ret = "EINVAL"
                 /\ UNCHANGED <<ongoing, tasks, completed, local_completion,
                                delivered, cancelled, wasix>>]_vars

C5_Witness ==
    /\ lastRet.op = "cancel" /\ lastRet.ret = "EINVAL" /\ lastRet.late
    /\ lastRet.val \notin Range(cancelled)
    /\ ongoing # {}
    /\ \E i \in DOMAIN completed : completed[i].tok = lastRet.val
\* C6: every token of a spawned operation is nonzero and greater than every
\* token returned before it; token 0 is returned for the local operations only
\* and is never a key of the ongoing map.
C6_TokensIncrease ==
    /\ \A i, j \in DOMAIN enqueued :
        (i < j /\ enqueued[i].tok # 0 /\ enqueued[j].tok # 0)
            => enqueued[i].tok < enqueued[j].tok
    /\ \A i \in DOMAIN enqueued : (enqueued[i].tok = 0) <=> (enqueued[i].kind = "nop")
    /\ 0 \notin ongoing /\ 0 \notin DOMAIN tasks
    /\ ongoing \subseteq {enqueued[i].tok : i \in DOMAIN enqueued}

C6_Witness ==
    /\ Spawned = MaxTokens /\ Local >= 1
    /\ \E i, j \in DOMAIN enqueued :
        i < j /\ enqueued[i].tok = 0 /\ enqueued[j].tok = FirstToken + 1
    /\ ongoing = {FirstToken + 1}

\* C7: when the local queue is non-empty wait() returns its oldest entry and
\* leaves the channel as it is; it takes from the channel only when the local
\* queue is empty.
C7_LocalQueueFirst ==
    [][Len(delivered') > Len(delivered) =>
        LET r == delivered'[Len(delivered')] IN
        IF local_completion # << >>
        THEN /\ r.op = Head(local_completion).op /\ r.tok = 0
             /\ local_completion' = Tail(local_completion)
             /\ completed' = completed
        ELSE /\ completed # << >>
             /\ r.op = Head(completed).op /\ r.tok = Head(completed).tok
             /\ completed' = Tail(completed)
             /\ local_completion' = local_completion]_vars

C7_Witness ==
    \E i, j \in DOMAIN delivered :
        /\ i < j
        /\ delivered[i].src = "local" /\ delivered[i].behind > 0
        /\ delivered[j].src = "chan" /\ delivered[j].op < delivered[i].op

\* C8: a Nop returns token 0 and has exactly one completion, (success, its user
\* context), on the local queue or already yielded by wait(); local completions
\* are yielded in the order their operations were enqueued.
LocalYielded == SelectSeq(delivered, LAMBDA r : r.tok = 0)
LocalRecords == [i \in 1..Len(LocalYielded) |->
                    [code |-> LocalYielded[i].code, ctx |-> LocalYielded[i].ctx,
                     tok |-> LocalYielded[i].tok, op |-> LocalYielded[i].op]]
                \o local_completion

C8_NopCompletesLocally ==
    /\ \A o \in DOMAIN enqueued : enqueued[o].kind = "nop" =>
        /\ enqueued[o].tok = 0
        /\ \E i \in DOMAIN LocalRecords :
            /\ LocalRecords[i] = [code |-> "ESUCCESS", ctx |-> enqueued[o].ctx,
                                  tok |-> 0, op |-> o]
            /\ \A j \in DOMAIN LocalRecords : LocalRecords[j].op = o => j = i
        /\ \A r \in Range(completed) : r.op # o
    /\ \A i, j \in DOMAIN LocalRecords : i < j => LocalRecords[i].op < LocalRecords[j].op

C8_Witness ==
    /\ Len(LocalYielded) = MaxLocal
    /\ LocalYielded[1].op < LocalYielded[2].op
    /\ LocalYielded[1].ctx # LocalYielded[2].ctx
    /\ LocalYielded[1].code = "ESUCCESS"

\* C9: every record wait() returns carries the user context given to the
\* enqueue_oneshot call of its operation, and no operation is returned twice,
\* so the contexts delivered are a sub-multiset of those enqueued.
C9_ContextEchoed ==
    /\ \A i \in DOMAIN delivered :
        /\ delivered[i].op \in DOMAIN enqueued
        /\ delivered[i].ctx = enqueued[delivered[i].op].ctx
        /\ delivered[i].tok = enqueued[delivered[i].op].tok
    /\ \A i, j \in DOMAIN delivered : delivered[i].op = delivered[j].op => i = j

C9_Witness ==
    \E i, j, k \in DOMAIN delivered :
        /\ delivered[i].tok = 0
        /\ delivered[j].tok # 0 /\ delivered[j].code = "ECANCELED"
        /\ delivered[k].tok # 0 /\ delivered[k].code = "ESUCCESS"
        /\ delivered[j].ctx # delivered[k].ctx

\* C10: a socket moves only along Unbound -> Bound, Bound -> Listening and
\* {Unbound, Bound} -> Connected, never back to Unbound; a bind on a socket that
\* is not Unbound and a listen on a socket that is not Bound return EINVAL, a
\* connect on a Listening or Connected socket completes with EINVAL, and each
\* of them leaves the socket as it was.
SocketState(inner) ==
    CASE inner \in {"Undefined4", "Undefined6"} -> "Unbound"
      [] inner = "Binded" -> "Bound"
      [] inner = "Listening" -> "Listening"
      [] OTHER -> "Connected"

StatedGraph ==
    {<<"Unbound", "Bound">>, <<"Bound", "Listening">>, <<"Bound", "Connected">>}

MovesWithin(graph) ==
    \A fd \in DOMAIN fs :
        /\ fd \in DOMAIN fs'
        /\ fs'[fd].inner # fs[fd].inner
            => <<SocketState(fs[fd].inner), SocketState(fs'[fd].inner)>> \in graph

Refused(fd) ==
    /\ lastRet'.ret = "EINVAL"
    /\ fs'[fd] = fs[fd]

\* A step of the guest's thread inside perform(): no task moves, nothing is
\* enqueued, the host's peers stay where they are.
OfPerform ==
    /\ tasks' = tasks /\ enqueued' = enqueued
    /\ incoming' = incoming /\ accepted' = accepted

IllegalBind(fd) ==
    /\ HasSocket(fd) /\ SocketState(fs[fd].inner) # "Unbound"
    /\ lastRet'.op = "bind" /\ OfPerform
IllegalListen(fd) ==
    /\ HasSocket(fd) /\ SocketState(fs[fd].inner) # "Bound"
    /\ lastRet'.op = "listen" /\ OfPerform
IllegalConnect(t) ==
    /\ tasks[t].kind = "connect" /\ tasks[t].stage = "start"
    /\ SocketState(fs[tasks[t].fd].inner) \in {"Listening", "Connected"}
    /\ tasks'[t].stage # "start"

\* No step of an illegal attempt is anything but a refusal.
IllegalRefused ==
    /\ \A fd \in Fds : (IllegalBind(fd) /\ ~Refused(fd)) =>
        /\ \A w \in WireStructs, ptrok \in BOOLEAN : ~PerformSocketBind(fd, w, ptrok)
        /\ ~(blocked.op = "bind" /\ blocked.fd = fd /\ PerformResumes)
    /\ \A fd \in Fds : (IllegalListen(fd) /\ ~Refused(fd)) =>
        /\ ~PerformSocketListen(fd)
        /\ ~(blocked.op = "listen" /\ blocked.fd = fd /\ PerformResumes)
    /\ \A t \in DOMAIN tasks :
        (IllegalConnect(t) /\ ~(tasks'[t].result = "EINVAL" /\ fs' = fs))
            => ~TaskConnectLock(t)

C10_ForwardWithDirectConnect ==
    [][MovesWithin(StatedGraph \cup {<<"Unbound", "Connected">>}) /\ IllegalRefused]_vars

\* C10 as stated: Connected is entered from Bound only.
C10_StatedGraphOnly ==
    [][MovesWithin(StatedGraph) /\ IllegalRefused]_vars

C10_Witness ==
    /\ \E a, b \in DOMAIN fs :
        /\ fs[a].inner = "Listening"
        /\ fs[b].inner = "Stream" /\ fs[b].remote.port = HostPorts.up
    /\ lastRet.op = "listen" /\ lastRet.ret = "EINVAL"
    /\ \E t \in DOMAIN tasks : tasks[t].kind = "connect" /\ tasks[t].result = "EINVAL"
\* C11: bind succeeds exactly on an Unbound socket given the struct of the
\* socket's family (16 bytes on IPv4, 28 bytes on IPv6) that lies in the guest's
\* memory, and then the socket is Bound to the decoded address; with any other
\* state or size it returns EINVAL, and whenever it fails the socket is as it was.
FamilySize(inner) ==
    CASE inner = "Undefined4" -> SizeIn
      [] inner = "Undefined6" -> SizeIn6
      [] OTHER -> 0

BoundTo(w) == [fam |-> IF w.size = SizeIn THEN 4 ELSE 6, ip |-> w.ip, port |-> ToBe16(w.port)]

BindOutcome(fd, w, ptrok) ==
    IF w.size = FamilySize(fs[fd].inner)
    THEN IF ptrok
         THEN /\ lastRet'.ret = "Ok"
              /\ fs'[fd] = [fs[fd] EXCEPT !.inner = "Binded", !.local = BoundTo(w)]
         ELSE /\ lastRet'.ret # "Ok"
              /\ fs'[fd] = fs[fd]
    ELSE /\ lastRet'.ret = "EINVAL"
         /\ fs'[fd] = fs[fd]

BindStepOf(fd, w, ptrok) ==
    \/ PerformSocketBind(fd, w, ptrok)
    \/ blocked = [op |-> "bind", fd |-> fd, w |-> w, ptrok |-> ptrok] /\ PerformResumes

C11_BindByStateAndFamily ==
    [][\A fd \in Fds, w \in BindWires, ptrok \in BOOLEAN :
        (/\ HasSocket(fd) /\ lastRet'.op = "bind" /\ OfPerform
         /\ ~BindOutcome(fd, w, ptrok))
            => ~BindStepOf(fd, w, ptrok)]_vars

C11_Witness ==
    /\ \E fd \in DOMAIN fs :
        /\ fs[fd].inner = "Binded"
        /\ fs[fd].local = [fam |-> 6, ip |-> 1, port |-> HostPorts.up]
    /\ \E fd \in DOMAIN fs : fs[fd].inner = "Stream"
    /\ lastRet.op = "bind" /\ lastRet.ret = "EINVAL"
\* C12: a connect goes on to the host only from Unbound or Bound; on a
\* Listening or Connected socket it completes with EINVAL; when the host connect
\* fails it completes with the errno of the host's error; in both cases the
\* socket is as it was; when the host connect succeeds the socket is Connected
\* with the peer as remote address and the host's local end as local address.
ConnectErrno(port) ==
    IF port = HostPorts.refused THEN {"ECONNREFUSED"} ELSE {"ENOTCONN"}

SameSocket(a, b) == a.inner = b.inner /\ a.local = b.local /\ a.remote = b.remote

ConnectOutcome(t) ==
    LET fd == tasks[t].fd
        code == tasks'[t].result
    IN  IF tasks[t].stage = "start"
        THEN /\ SocketState(fs[fd].inner) \in {"Listening", "Connected"}
             /\ code = "EINVAL"
             /\ fs'[fd] = fs[fd]
        ELSE \/ /\ code = "ESUCCESS"
                /\ tasks[t].addr.port = HostPorts.up
                /\ fs'[fd].inner = "Stream"
                /\ fs'[fd].remote = tasks[t].addr
                /\ fs'[fd].local = HostLocal(tasks[t].addr.fam, fd)
             \/ /\ code \in ConnectErrno(tasks[t].addr.port)
                /\ SameSocket(fs'[fd], fs[fd])

ConnectGoesOn(t) ==
    (tasks[t].stage = "start" /\ tasks'[t].stage = "connecting")
        => SocketState(fs[tasks[t].fd].inner) \in {"Unbound", "Bound"}

C12_ConnectByState ==
    [][/\ \A t \in DOMAIN tasks :
            /\ (tasks[t].kind = "connect" /\ tasks[t].pc = "pending"
                    /\ tasks'[t].pc = "resolved") => ConnectOutcome(t)
            /\ tasks[t].kind = "connect" => ConnectGoesOn(t)
       /\ \A i \in DOMAIN completed :
            completed[i].code = tasks[completed[i].tok].result
       /\ \A fd \in DOMAIN fs :
            (fs'[fd].inner = "Stream" /\ fs[fd].inner # "Stream")
                => \E t \in DOMAIN tasks : tasks'[t].result = "ESUCCESS" /\ tasks[t].fd = fd]_vars

C12_Witness ==
    /\ \E a, b \in DOMAIN fs :
        /\ fs[a].inner = "Listening"
        /\ fs[b].inner = "Stream" /\ fs[b].remote.port = HostPorts.up
    /\ \E i, j \in DOMAIN delivered :
        /\ delivered[i].code = "EINVAL"
        /\ delivered[j].code = "ESUCCESS"

\* C13: a connect never makes a socket Connected to an address of another
\* family than the socket's own (the one it was created with, which is also the
\* family of the address it is bound to).
SocketFamily(s) ==
    CASE s.inner = "Undefined4" -> 4
      [] s.inner = "Undefined6" -> 6
      [] OTHER -> s.local.fam

C13_ConnectKeepsFamily ==
    [][\A fd \in DOMAIN fs :
        (fs'[fd].inner = "Stream" /\ fs[fd].inner # "Stream")
            => fs'[fd].remote.fam = SocketFamily(fs[fd])]_vars
\* C14: the step in which a connect is aborted changes the state and the
\* addresses of no socket and leaves the task holding no lock; a socket's write
\* lock is only ever held by a connect that is still under way; and a socket on
\* which no connect succeeded is Unbound or Bound.
HoldsNothing(f, t) ==
    \A fd \in DOMAIN f : f[fd].wlock # t /\ t \notin f[fd].rlock /\ f[fd].lmutex # t

C14_AbortLeavesSocket ==
    [][/\ \A t \in DOMAIN tasks :
            (tasks[t].kind = "connect" /\ tasks'[t].result = "Aborted"
                    /\ tasks[t].result # "Aborted")
                => /\ \A fd \in DOMAIN fs : SameSocket(fs'[fd], fs[fd])
                   /\ HoldsNothing(fs', t)
       /\ \A fd \in DOMAIN fs : fs[fd].wlock # 0 =>
            /\ fs[fd].wlock \in DOMAIN tasks
            /\ tasks[fs[fd].wlock].pc = "pending"
            /\ tasks[fs[fd].wlock].stage = "connecting"
            /\ tasks[fs[fd].wlock].fd = fd
       /\ (\A t \in DOMAIN tasks : tasks[t].result # "ESUCCESS")
            => \A fd \in DOMAIN fs : SocketState(fs[fd].inner) \in {"Unbound", "Bound"}]_vars

C14_Witness ==
    /\ \E i \in DOMAIN delivered :
        /\ delivered[i].code = "ECANCELED"
        /\ tasks[delivered[i].tok].result = "Aborted"
    /\ fs[1].inner = "Binded"
    /\ \E t \in DOMAIN tasks :
        /\ tasks[t].pc = "pending" /\ tasks[t].stage = "connecting"
        /\ fs[1].wlock = t
    /\ \A t \in DOMAIN tasks : tasks[t].result # "ESUCCESS"
\* C15: an accept loop goes on to the host only on a Listening socket and
\* completes with EINVAL otherwise; an accept-poll that succeeds takes the
\* oldest connection off the hand-off queue and adds one descriptor, a
\* Connected socket whose remote address is that connection's peer, changing
\* no other socket; a Listening socket stays Listening.
AcceptedSocket(s, c) ==
    s.inner = "Stream" /\ s.remote = c.peer /\ s.wlock = 0 /\ s.rlock = {}

AcceptOutcome ==
    /\ accepted # << >> /\ accepted' = Tail(accepted)
    /\ Len(fs') = Len(fs) + 1
    /\ lastRet'.val = Len(fs')
    /\ AcceptedSocket(fs'[Len(fs')], Head(accepted))
    /\ \A fd \in DOMAIN fs : fs'[fd] = fs[fd]

C15_AcceptMakesNewSocket ==
    [][/\ (lastRet' # lastRet /\ lastRet'.op = "accept" /\ lastRet'.ret = "Ok")
            => AcceptOutcome
       /\ \A fd \in DOMAIN fs : fs[fd].inner = "Listening" => fs'[fd].inner = "Listening"
       /\ \A t \in DOMAIN tasks :
            (tasks[t].kind = "preaccept" /\ tasks[t].stage = "start"
                    /\ tasks'[t].stage # "start")
                => IF fs[tasks[t].fd].inner = "Listening"
                   THEN tasks'[t].stage = "locked"
                   ELSE tasks'[t].result = "EINVAL" /\ fs' = fs]_vars

C15_Witness ==
    /\ Len(fs) = MaxSockets
    /\ fs[1].inner = "Listening"
    /\ fs[2].inner = "Stream" /\ fs[2].remote.ip = PeerAddr(1).ip
    /\ fs[3].inner = "Stream" /\ fs[3].remote # fs[2].remote
    /\ lastRet.op = "accept" /\ lastRet.ret = "Ok" /\ lastRet.val = 3

\* C16: an accept-poll issued while the hand-off queue is empty returns EAGAIN
\* in that one step, adds no descriptor and leaves the caller running, whatever
\* the accept loops in flight are doing; and the poll is always able to run
\* when the caller is running.
InFlight == {t \in DOMAIN tasks : tasks[t].kind = "preaccept" /\ tasks[t].pc = "pending"}

C16_AcceptPollNeverWaits ==
    /\ [](blocked = NotBlocked => ENABLED PerformSocketAccept(TRUE, SizeIn))
    /\ [][(lastRet'.op = "accept" /\ lastRet' # lastRet /\ accepted = << >>)
            => /\ lastRet'.ret = "EAGAIN"
               /\ fs' = fs /\ accepted' = accepted
               /\ blocked' = NotBlocked /\ tasks' = tasks]_vars

C16_Witness ==
    /\ lastRet.op = "accept" /\ lastRet.ret = "EAGAIN"
    /\ accepted = << >> /\ Len(fs) = 1
    /\ Cardinality(InFlight) = MaxTokens
    /\ \E t \in InFlight : tasks[t].stage = "accepting"

\* C17: the hand-off queue never holds more than one connection; an accept
\* loop that holds an accepted connection has no completion record, and while
\* the queue is full it stays where it is: only a step that starts with room
\* in the queue lets it hand the connection over.
Holding(t) ==
    t \in DOMAIN tasks /\ tasks[t].kind = "preaccept"
        /\ tasks[t].pc = "pending" /\ tasks[t].stage = "sending"

C17_AcceptBackpressure ==
    /\ [](Len(accepted) <= 1)
    /\ [](\A t \in DOMAIN tasks : Holding(t) => RecordsOf(t) = 0)
    /\ [][\A t \in DOMAIN tasks :
            (Holding(t) /\ Len(accepted) = 1)
                => /\ tasks'[t] = tasks[t]
                   /\ RecordsOf(t)' = 0]_vars

C17_Witness ==
    /\ Len(accepted) = 1
    /\ \E t \in DOMAIN tasks : Holding(t) /\ tasks[t].conn # accepted[1]
    /\ \E t \in DOMAIN tasks : tasks[t].kind = "preaccept" /\ tasks[t].pc = "done"
                                    /\ tasks[t].result = "ESUCCESS"

\* C18: the sockets accept-poll has created appear in the order in which the
\* host accepted their connections on the listener.
AcceptedFds == {fd \in DOMAIN fs : fs[fd].remote.ip = PeerAddr(1).ip}

C18_AcceptFifo ==
    \A a, b \in AcceptedFds : a < b => fs[a].remote.port < fs[b].remote.port

\* C19: a query for the local address succeeds on Binded, Listening and Stream
\* sockets; a query for the remote address succeeds only on a Stream socket
\* with a peer and fails with ENOTCONN on every socket without one (Undefined,
\* Binded, Listening); a failing query leaves the caller's size cell as it was.
HasPeer(s) == s.inner = "Stream" /\ s.remote # NoAddr

AddrQueryOutcome(fd, remote, size) ==
    /\ (~remote /\ fs[fd].inner \in {"Binded", "Listening", "Stream"}
            /\ EncodeAccepts(size, fs[fd].local)) => lastRet'.ret = "Ok"
    /\ (remote /\ HasPeer(fs[fd]) /\ EncodeAccepts(size, fs[fd].remote))
            => lastRet'.ret = "Ok"
    /\ (remote /\ ~HasPeer(fs[fd])) => lastRet'.ret = "ENOTCONN"
    /\ lastRet'.ret # "Ok" => lastRet'.val = size

C19_AddressQueriesByState ==
    [][\A fd \in DOMAIN fs, remote \in BOOLEAN, size \in AddrSizes :
            (lastRet'.op = "addr" /\ lastRet' # lastRet /\ fs' = fs /\ tasks' = tasks
                    /\ ~AddrQueryOutcome(fd, remote, size))
                => ~PerformSocketAddr(fd, remote, size, TRUE, TRUE)]_vars

\* C20: a Read, and a Write whose buffer lies in the guest's memory, that finds
\* its socket Undefined, Binded or Listening resolves with EINVAL in that step,
\* with no socket changed and no byte counted; its completion record carries
\* EINVAL; bytes are only ever counted on Stream sockets.
IoTask(t) ==
    t \in DOMAIN tasks /\ tasks[t].kind \in {"read", "write"}
        /\ tasks[t].pc = "pending" /\ tasks[t].stage = "start"

IoRefused(t) ==
    /\ tasks'[t].pc = "resolved" /\ tasks'[t].result = "EINVAL"
    /\ fs' = fs

IoRecordsMatch ==
    \A r \in Records : r.tok \in DOMAIN tasks /\ tasks[r.tok].kind \in {"read", "write"}
                            => r.code = tasks[r.tok].result

NoBytesOffStream ==
    \A fd \in DOMAIN fs : fs[fd].inner # "Stream" => fs[fd].sent = 0 /\ fs[fd].rcvd = 0

C20_IoOnlyOnStream ==
    /\ [](IoRecordsMatch /\ NoBytesOffStream)
    /\ [][\A t \in DOMAIN tasks :
            (IoTask(t) /\ tasks'[t] # tasks[t]
                    /\ fs[tasks[t].fd].inner # "Stream"
                    /\ (tasks[t].kind = "read" \/ tasks[t].iov.ok))
                => IoRefused(t)]_vars

\* The statement without the condition on the buffer of a Write.
C20_IoOnlyOnStreamAnyBuffer ==
    [][\A t \in DOMAIN tasks :
            (IoTask(t) /\ tasks'[t] # tasks[t] /\ fs[tasks[t].fd].inner # "Stream")
                => IoRefused(t)]_vars

C20_Witness ==
    /\ \E i, j \in DOMAIN delivered :
        /\ delivered[i].code = "EINVAL" /\ delivered[j].code = "EINVAL"
        /\ tasks[delivered[i].tok].kind = "read"
        /\ tasks[delivered[j].tok].kind = "write"
    /\ Len(fs) = MaxFd
    /\ fs[1].inner = "Listening" /\ fs[2].inner = "Undefined4"
    /\ NoBytesOffStream

\* C21: socket creation with a writable output cell adds one Undefined socket
\* of the requested family under a descriptor that was not in the table, for
\* (AF_INET, SOCK_STREAM) and (AF_INET6, SOCK_STREAM) only; for every other
\* family or type it returns EINVAL; every failing creation leaves the
\* descriptor table as it was.
UnboundOf(domain) == IF domain = "AF_INET" THEN "Undefined4" ELSE "Undefined6"

CreateOutcome(domain, ty, ptrok) ==
    IF ty = "SOCK_STREAM" /\ domain \in {"AF_INET", "AF_INET6"} /\ ptrok
    THEN /\ lastRet'.ret = "Ok"
         /\ lastRet'.val \notin DOMAIN fs
         /\ DOMAIN fs' = DOMAIN fs \cup {lastRet'.val}
         /\ fs'[lastRet'.val] = NewSocket(UnboundOf(domain))
         /\ \A fd \in DOMAIN fs : fs'[fd] = fs[fd]
    ELSE /\ fs' = fs
         /\ lastRet'.ret # "Ok"
         /\ ptrok => lastRet'.ret = "EINVAL"

Decoded == {tasks[t].addr : t \in {u \in DOMAIN tasks : tasks[u].kind = "connect"}}

C22_RoundTrip ==
    /\ \A a \in Decoded : a = fs[1].local
    /\ enqueued # << >> => Decoded # {}

C22_Witness ==
    /\ fs[1].local.port = 4660 /\ fs[1].local.fam = 6
    /\ lastRet.wire.port = 13330 /\ lastRet.val = SizeIn6
    /\ Decoded = {fs[1].local}

\* C23: an accept-poll whose address size is not exactly the size of the
\* peer's struct (16 for IPv4, 28 for IPv6) returns EINVAL and stores nothing
\* in the caller's address buffer.
InexactRefused ==
    lastRet'.ret = "EINVAL" /\ lastRet'.wire = NoWire

C23_ExactSizes ==
    [][\A size \in {SizeIn, SizeIn6, 8} :
            (lastRet'.op = "accept" /\ lastRet' # lastRet /\ accepted # << >>
                    /\ size # EncodedSize(Head(accepted).peer)
                    /\ ~InexactRefused)
                => ~PerformSocketAccept(TRUE, size)]_vars

\* C24: whatever kind of error the host fails a read or a write with, the
\* operation resolves with one result code, the one the mapping gives that
\* kind: the codes of their own for refused, reset, address in use,
\* would-block and timed out, and EINVAL for every kind the mapping has no
\* entry for.
Errnos ==
    {"EEXIST", "EPERM", "ECONNREFUSED", "ECONNRESET", "ECONNABORTED", "ENOTCONN",
     "EADDRINUSE", "EADDRNOTAVAIL", "EPIPE", "EAGAIN", "EINVAL", "ETIMEDOUT", "EIO"}

Unmapped == {"Other", "Unsupported", "OutOfMemory"}

MappedAs(kind, code) ==
    /\ code \in Errnos
    /\ kind = "ConnectionRefused" => code = "ECONNREFUSED"
    /\ kind = "ConnectionReset" => code = "ECONNRESET"
    /\ kind = "AddrInUse" => code = "EADDRINUSE"
    /\ kind = "WouldBlock" => code = "EAGAIN"
    /\ kind = "TimedOut" => code = "ETIMEDOUT"
    /\ kind \in Unmapped => code = "EINVAL"

IoFails(t) ==
    /\ t \in DOMAIN tasks /\ tasks[t].kind \in {"read", "write"}
    /\ tasks[t].pc = "pending" /\ tasks[t].stage \in {"reading", "writing"}
    /\ tasks'[t].pc = "resolved" /\ tasks'[t].result # "ESUCCESS"

C24_ErrorMappingTotal ==
    /\ [][\A t \in Tokens, kind \in ErrorKinds :
            (IoFails(t) /\ ~MappedAs(kind, tasks'[t].result))
                => ~(TaskReadDone(t, 0, kind) \/ TaskWriteDone(t, 1, kind))]_vars
    /\ [](\A r \in Records : r.code \in Errnos \cup {"ESUCCESS"})

C24_Witness ==
    \E i, j \in DOMAIN delivered, fd \in DOMAIN fs :
        /\ delivered[i].code = "ETIMEDOUT" /\ delivered[j].code = "ESUCCESS"
        /\ tasks[delivered[i].tok].kind = "read"
        /\ tasks[delivered[j].tok].kind = "connect"
        /\ fs[fd].inner = "Stream" /\ fs[fd].rcvd = 0

\* C25: a sock_send_file call for N bytes from a source that had M <= N bytes
\* to give, once it returned with success, reports exactly M bytes as sent; at
\* no point has it sent more than M or more than N bytes, read more than the
\* source had, or gone through more than ceil(N / 4096) iterations.
CeilDiv(a, b) == (a + b - 1) \div b

C25_SendFileExact ==
    send_file.m <= send_file.n =>
        /\ send_file.total_written <= send_file.m
        /\ send_file.total_written <= send_file.n
        /\ send_file.read <= send_file.m
        /\ Len(send_file.asked) <= CeilDiv(send_file.n, Chunk)
        /\ (send_file.pc = "returned" /\ send_file.ret = "Success")
                => send_file.ret_sent = send_file.m

\* C26: a sock_send_file call that has returned, whatever count it was given,
\* has returned Badf if the source descriptor is not open, Inval if the source
\* is stdout or stderr, Access if the source lacks the read right, Isdir if
\* the source is a directory or the root; and in each of these cases nothing
\* was sent on any socket.  A call whose result pointer is invalid is left
\* aside: the property is about calls given a writable ret_sent.
Stdio == {STDIN_FILENO, STDOUT_FILENO, STDERR_FILENO}

NothingSent ==
    send_file.total_written = 0 /\ \A fd \in DOMAIN fd_map : fd_map[fd].sent = 0

FailedWith(errno) ==
    send_file.ret = errno /\ NothingSent

C26_SourceErrors ==
    (send_file.pc = "returned" /\ send_file.ret # "Memviolation") =>
        LET in_fd == send_file.in_fd IN
        /\ in_fd \notin DOMAIN fd_map => FailedWith("Badf")
        /\ in_fd \in {STDOUT_FILENO, STDERR_FILENO} => FailedWith("Inval")
        /\ (in_fd \in DOMAIN fd_map \ Stdio /\ "FD_READ" \notin fd_map[in_fd].rights)
                => FailedWith("Access")
        /\ (in_fd \in DOMAIN fd_map \ Stdio /\ "FD_READ" \in fd_map[in_fd].rights
                /\ fd_map[in_fd].kind \in {"Dir", "Root"})
                => FailedWith("Isdir")

\* C27: rights never escalate, and an operation through a descriptor that
\* lacks the right it needs fails without being performed.  In every step: no
\* descriptor's rights set gains a bit; an iteration of sock_send_file whose
\* source lacks FD_READ ends the call, reads nothing and sends nothing, with
\* Access, or with Inval when the source is stdout or stderr (refused as a
\* source before the rights are looked at); bytes are read only through a
\* descriptor that has FD_READ and sent only through one that has SOCK_SEND.
NoRightGained ==
    \A fd \in DOMAIN fd_map :
        fd \in DOMAIN fd_map' /\ fd_map'[fd].rights \subseteq fd_map[fd].rights

ReadAttempted ==
    /\ send_file.pc = "loop"
    /\ send_file.count > 0
    /\ send_file' # send_file

LacksRead ==
    send_file.in_fd \in DOMAIN fd_map /\ "FD_READ" \notin fd_map[send_file.in_fd].rights

RefusedWith(errno) ==
    /\ send_file'.pc = "returned"
    /\ send_file'.ret = errno
    /\ send_file'.read = send_file.read
    /\ send_file'.total_written = send_file.total_written
    /\ fd_map' = fd_map

OnlyThroughRights ==
    /\ send_file'.read > send_file.read
            => "FD_READ" \in fd_map[send_file.in_fd].rights
    /\ \A fd \in DOMAIN fd_map :
            fd_map'[fd].sent > fd_map[fd].sent => "SOCK_SEND" \in fd_map[fd].rights

ExecOfUnknown ==
    /\ <<stderr, exec_ret>>' # <<stderr, exec_ret>>
    /\ exec_ret'.path \notin DOMAIN commands

C28_LookupByExactPath ==
    [][ /\ \A name \in Names :
            RegisterCommand(name) =>
                /\ Exists("/bin/" \o name)'
                /\ Get("/bin/" \o name)' = name
                /\ DOMAIN commands' = DOMAIN commands \cup {"/bin/" \o name}
        /\ ExecOfUnknown =>
                /\ exec_ret'.ret = "Ok"
                /\ exec_ret'.cmd = "exited_process"
                /\ exec_ret'.code = "Noent"
                /\ stderr' = Append(stderr, "wasm command unknown - " \o exec_ret'.path \o "\r\n")
                /\ commands' = commands ]_vars

C28_Witness ==
    /\ DOMAIN commands = {"/bin/ls"}
    /\ commands["/bin/ls"] = "ls"
    /\ exec_ret = [path |-> "/bin/l", ret |-> "Ok", cmd |-> "exited_process", code |-> "Noent"]
    /\ stderr = <<"wasm command unknown - /bin/l\r\n">>

\* C29: an enqueue_oneshot call that returns an error leaves nothing behind.
\* The step of a failing call carries no token and changes neither the token
\* counter, the ongoing map, the tasks, nor any queue of completions; and at
\* every moment the completion records that carry a user context, queued or
\* delivered by wait(), are no more than the accepted calls made with it.
EnqueueFailed ==
    enqueue_ret' # enqueue_ret /\ enqueue_ret'.ret # "Ok"

RecordsWith(ctx) ==
    Cardinality({i \in DOMAIN completed : completed[i].ctx = ctx})
    + Cardinality({i \in DOMAIN local_completion : local_completion[i].ctx = ctx})
    + Cardinality({i \in DOMAIN delivered : delivered[i].ctx = ctx})

AcceptedWith(ctx) ==
    Cardinality({i \in DOMAIN enqueued : enqueued[i].ctx = ctx})

C29_FailedEnqueueLeavesNothing ==
    [][ /\ EnqueueFailed =>
            /\ enqueue_ret'.tok = 0
            /\ UNCHANGED <<ongoing, ongoing_next, tasks, enqueued, completed,
                           local_completion, delivered>>
        /\ \A ctx \in UserContexts : RecordsWith(ctx)' <= AcceptedWith(ctx)' ]_vars

C29_Witness ==
    /\ enqueue_ret = [ctx |-> 2, ret |-> "EINVAL", tok |-> 0]
    /\ AcceptedWith(1) = 1
    /\ AcceptedWith(2) = 0
    /\ Len(delivered) = 1
    /\ RecordsWith(2) = 0
    /\ ongoing = {}
    /\ ongoing_next = FirstToken + 1

\* C30: a synchronous operation never keeps the caller inside perform(): a
\* bind or a listen that has entered perform() returns, whatever one-shot
\* operation is in flight on the socket.
C30_PerformReturns ==
    (blocked # NotBlocked) ~> (blocked = NotBlocked)

\* C31: the two halves of a connected socket are locked independently.  While
\* a Read holds the read half, a Write on the same socket that is still under
\* way can take its next step, whichever it is: the socket's lock for reading,
\* the write half unless another Write holds it, the write itself; and the
\* same with Read and Write changed round.  At no time do two Reads hold the read half, or two Writes the write
\* half, of one socket.
Holds(t, kind, fd) ==
    /\ tasks[t].pc = "pending"
    /\ tasks[t].kind = kind
    /\ tasks[t].fd = fd
    /\ tasks[t].stage = IF kind = "read" THEN "reading" ELSE "writing"

UnderWay(t, kind, fd) ==
    tasks[t].pc = "pending" /\ tasks[t].kind = kind /\ tasks[t].fd = fd

WriteCanGoOn(w) ==
    CASE tasks[w].stage = "start" -> ENABLED TaskWriteLock(w)
      [] tasks[w].stage = "locked" -> ENABLED TaskWriteHalf(w)
      [] tasks[w].stage = "writing" -> \E n \in 0..MaxLen : ENABLED TaskWriteDone(w, n, "Ok")
      [] OTHER -> FALSE

ReadCanGoOn(r) ==
    CASE tasks[r].stage = "start" -> ENABLED TaskReadLock(r)
      [] tasks[r].stage = "locked" -> ENABLED TaskReadHalf(r)
      [] tasks[r].stage = "reading" -> \E n \in 0..MaxLen : ENABLED TaskReadDone(r, n, "Ok")
      [] OTHER -> FALSE

C31_HalvesIndependent ==
    \A fd \in DOMAIN fs :
        /\ \A r, w \in DOMAIN tasks :
            /\ (Holds(r, "read", fd) /\ UnderWay(w, "write", fd) /\ fs[fd].whalf \in {0, w})
                    => WriteCanGoOn(w)
            /\ (Holds(w, "write", fd) /\ UnderWay(r, "read", fd) /\ fs[fd].rhalf \in {0, r})
                    => ReadCanGoOn(r)
        /\ Cardinality({t \in DOMAIN tasks : Holds(t, "read", fd)}) <= 1
        /\ Cardinality({t \in DOMAIN tasks : Holds(t, "write", fd)}) <= 1

C31_Witness ==
    /\ DOMAIN tasks = {1, 2}
    /\ Holds(1, "read", 1)
    /\ tasks[2].kind = "write"
    /\ tasks[2].pc # "pending"
    /\ tasks[2].result = "ESUCCESS"
    /\ fs[1].rhalf = 1
    /\ fs[1].sent = 1
    /\ fs[1].rcvd = 0

\* C32: the transitions of one socket exclude one another.  At most one
\* connect is inside its transition on a socket at a time; while it is, the
\* socket's state and addresses change only in the step that ends that
\* connect, and no other connect starts on the socket; and the connects that
\* completed with success are no more than the sockets that became streams,
\* so two connects on one socket never both succeed.
Connecting(t, fd) ==
    /\ tasks[t].pc = "pending"
    /\ tasks[t].kind = "connect"
    /\ tasks[t].stage = "connecting"
    /\ tasks[t].fd = fd

Lifecycle(sock) == <<sock.inner, sock.local, sock.remote>>

ConnectsSucceeded ==
    Cardinality({t \in DOMAIN tasks :
                    tasks[t].kind = "connect" /\ tasks[t].result = "ESUCCESS"})

C32_TransitionsExclusive ==
    [][ \A fd \in DOMAIN fs :
          /\ Cardinality({t \in DOMAIN tasks : Connecting(t, fd)}') <= 1
          /\ \A t \in DOMAIN tasks :
                Connecting(t, fd) =>
                    /\ Lifecycle(fs'[fd]) # Lifecycle(fs[fd]) => tasks'[t].pc = "resolved"
                    /\ \A u \in DOMAIN tasks \ {t} :
                          (tasks[u].kind = "connect" /\ tasks[u].fd = fd)
                                => tasks'[u] = tasks[u]
          /\ ConnectsSucceeded' <=
                Cardinality({f \in DOMAIN fs' : fs'[f].inner = "Stream"}) ]_vars

C32_Witness ==
    /\ DOMAIN tasks = {1, 2}
    /\ Len(fs) = 1
    /\ fs[1].inner = "Stream"
    /\ tasks[1].kind = "connect" /\ tasks[1].result = "ESUCCESS"
    /\ tasks[2].kind = "connect" /\ tasks[2].result = "EINVAL"

\* C33: sock_send_file copies in bounded chunks.  Every iteration asks the
\* source for between 1 and 4096 bytes and gets no more than it asked; what
\* was asked so far and what is left to ask add up to the requested count;
\* the offset of a file, pipe, socket or buffer source is where the call
\* started plus the bytes read so far; and a call that returned Success
\* reports the sum of what the socket reported sent, chunk by chunk.
RECURSIVE SeqSum(_)
SeqSum(q) == IF q = << >> THEN 0 ELSE Head(q) + SeqSum(Tail(q))

C33_BoundedChunks ==
    (send_file.pc \in {"loop", "returned"} /\ send_file.in_fd \in DOMAIN fd_map) =>
        /\ \A i \in DOMAIN send_file.asked : send_file.asked[i] \in 1..Chunk
        /\ SeqSum(send_file.asked) + send_file.count = send_file.n
        /\ Len(send_file.got) <= Len(send_file.asked)
        /\ \A i \in DOMAIN send_file.got : send_file.got[i] <= send_file.asked[i]
        /\ (send_file.in_fd \notin Stdio
                /\ fd_map[send_file.in_fd].kind \in {"File", "Pipe", "Socket", "Buffer"})
            => fd_map[send_file.in_fd].offset = send_file.start + SeqSum(send_file.got)
        /\ (send_file.pc = "returned" /\ send_file.ret = "Success")
            => /\ send_file.count = 0
               /\ send_file.ret_sent = send_file.total_written
               /\ send_file.sock \in DOMAIN fd_map
                    => send_file.total_written <= fd_map[send_file.sock].sent

C33_Witness ==
    /\ send_file.pc = "returned"
    /\ send_file.ret = "Success"
    /\ send_file.in_fd = SourceFd
    /\ fd_map[SourceFd].kind = "File"
    /\ send_file.start = 1
    /\ send_file.asked = <<Chunk, Chunk, 1>>
    /\ send_file.got = <<Chunk, 0, 0>>
    /\ fd_map[SourceFd].offset = Chunk + 1
    /\ send_file.ret_sent = Chunk

\* C34: the dispatch calls check the descriptor first.  A sock_bind,
\* sock_connect, sock_set_opt_flag or sock_set_opt_time call on a descriptor
\* that is not open returns Badf, whatever its other arguments; and a call
\* returns a memory fault or Inval only for a descriptor that is open and has
\* the right the call asks for.
C34_DescriptorFirst ==
    syscall_ret.call # "none" =>
        /\ syscall_ret.sock \notin DOMAIN fd_map => syscall_ret.ret = "Badf"
        /\ syscall_ret.ret \in {"Memviolation", "Inval"} =>
                /\ syscall_ret.sock \in DOMAIN fd_map
                /\ syscall_ret.call = "sock_bind"
                        => "SOCK_BIND" \in fd_map[syscall_ret.sock].rights
                /\ syscall_ret.call = "sock_connect"
                        => "SOCK_CONNECT" \in fd_map[syscall_ret.sock].rights

\* C35: the ongoing map holds no stale entry.  Its keys are tokens of spawned
\* tasks that have enqueued no completion record yet; a task that has not
\* resolved yet has its entry unless a Cancel took it; and when every spawned
\* task has enqueued its record the map is empty.
C35_NoStaleEntry ==
    /\ \A t \in ongoing : t \in DOMAIN tasks /\ RecordsOf(t) = 0
    /\ \A t \in DOMAIN tasks :
            (tasks[t].pc = "pending" /\ t \notin ongoing) => t \in Range(cancelled)
    /\ (\A t \in DOMAIN tasks : RecordsOf(t) = 1) => ongoing = {}

C35_Witness ==
    /\ DOMAIN tasks = {1, 2}
    /\ ongoing = {}
    /\ cancelled = <<2>>
    /\ RecordsOf(1) = 1 /\ RecordsOf(2) = 1
    /\ \E i \in DOMAIN delivered : delivered[i].tok = 2 /\ delivered[i].code = "ECANCELED"
    /\ \E i \in DOMAIN delivered : delivered[i].tok = 1 /\ delivered[i].code # "ECANCELED"

\* C36: the accept loop hands its connection off before its success record is
\* enqueued.  The step in which the loop ends with success appends the
\* connection it accepted to the hand-off queue, and no record of the task
\* exists yet; the pre-accepts whose success record exists, enqueued or
\* delivered, are never more than the connections that left the loops; and an
\* accept-poll returns EAGAIN only when the accept-polls before it have taken
\* as many connections as there are such records.
InBacklog == UNION {{backlog[fd][i].id : i \in DOMAIN backlog[fd]} : fd \in DOMAIN backlog}

InTasks == {tasks[t].conn.id : t \in {u \in DOMAIN tasks : tasks[u].conn # NoConn}}

HandedOff == incoming - Cardinality(InBacklog) - Cardinality(InTasks)

Taken == HandedOff - Len(accepted)

PreAcceptSuccesses ==
    Cardinality({t \in DOMAIN tasks :
                    /\ tasks[t].kind = "preaccept"
                    /\ tasks[t].result = "ESUCCESS"
                    /\ RecordsOf(t) > 0})

PollFindsNothing ==
    lastRet' # lastRet /\ lastRet'.op = "accept" /\ lastRet'.ret = "EAGAIN"

LoopSucceeds(t) ==
    /\ tasks[t].kind = "preaccept"
    /\ tasks[t].pc = "pending"
    /\ tasks'[t].pc = "resolved"
    /\ tasks'[t].result = "ESUCCESS"

C36_HandOffBeforeCompletion ==
    [][ /\ \A t \in DOMAIN tasks :
              LoopSucceeds(t) =>
                  /\ tasks[t].conn # NoConn
                  /\ accepted' = Append(accepted, tasks[t].conn)
                  /\ RecordsOf(t) = 0
        /\ PreAcceptSuccesses' <= HandedOff'
        /\ PollFindsNothing => Taken >= PreAcceptSuccesses ]_vars

\* C36 as stated: right after wait() has yielded the success record of a
\* pre-accept (no accept-poll can have taken a connection since), an
\* accept-poll would find a connection in the hand-off queue.
YieldsPreAcceptSuccess ==
    /\ Len(delivered') = Len(delivered) + 1
    /\ delivered'[Len(delivered')].code = "ESUCCESS"
    /\ enqueued[delivered'[Len(delivered')].op].kind = "preaccept"

C36_PollAfterSuccess ==
    [][ YieldsPreAcceptSuccess => accepted' # << >> ]_vars

C36_Witness ==
    /\ PreAcceptSuccesses = 1
    /\ \E i \in DOMAIN delivered : delivered[i].code = "ESUCCESS"
    /\ Taken = 1
    /\ accepted = << >>
    /\ lastRet.op = "accept" /\ lastRet.ret = "EAGAIN"

\* C37: accept-poll is atomic on failure.  A step in which accept-poll returns
\* an error leaves the descriptor table as it was and the pending connection
\* at the head of the hand-off queue.
PollFails ==
    lastRet' # lastRet /\ lastRet'.op = "accept" /\ lastRet'.ret # "Ok"

C37_AcceptAtomicOnFailure ==
    [][ PollFails => (fs' = fs /\ accepted' = accepted) ]_vars

\* C38: an accepted connection is delivered only for the listener it arrived
\* on.  Accept-poll names no listener: the listener the guest polls for is the
\* one whose accept loop wait() reported last (its user context).  An
\* accept-poll issued then returns a connection that arrived on that listener.
PollReturnsConnection ==
    lastRet' # lastRet /\ lastRet'.op = "accept" /\ lastRet'.ret = "Ok"

PolledFor == delivered[Len(delivered)].ctx

C38_OnlyForItsListener ==
    [][ ( /\ PollReturnsConnection
          /\ delivered # << >>
          /\ delivered[Len(delivered)].code = "ESUCCESS" )
        => Head(accepted).via = PolledFor ]_vars

\* C39: the address reserved by bind is preserved by connect.  When a bound
\* socket becomes a connected stream, the address that the query for the local
\* address is answered with is the one it was answered with before.
ConnectsBound(fd) ==
    /\ fs[fd].inner = "Binded"
    /\ fs'[fd].inner = "Stream"

C39_BoundAddressKept ==
    [][ \A fd \in DOMAIN fs :
            ConnectsBound(fd) =>
                /\ AddrErr(fs'[fd], FALSE) = "Ok"
                /\ AddrOf(fs'[fd], FALSE) = AddrOf(fs[fd], FALSE) ]_vars

\* C40: sock_send_file keeps the source position consistent with what was
\* transmitted.  After a successful call on a regular file or a buffer that
\* started at offset o and returned total t, the offset of the source is o + t.
C40_OffsetFollowsTotal ==
    ( /\ send_file.pc = "returned"
      /\ send_file.ret = "Success"
      /\ send_file.in_fd \in DOMAIN fd_map
      /\ send_file.in_fd \notin Stdio
      /\ fd_map[send_file.in_fd].kind \in {"File", "Buffer"} )
    => fd_map[send_file.in_fd].offset = send_file.start + send_file.ret_sent

============================================================================
